---- MODULE Spec2Model ----
(***************************************************************************)
(* Metrics derivation of the GitHub stats card (src/unnamed/part_000):     *)
(* calculateStreaks, calculateRank, determineCodingPersona, mapMetrics,   *)
(* calculateMostActiveDay and the request handlers.                        *)
(*                                                                         *)
(* Every function of the pipeline is synchronous and keeps no state, so a  *)
(* behaviour of the model is one call: Init draws the function and its     *)
(* argument, the action of that function computes what the code returns    *)
(* (or records that it threw).                                             *)
(*                                                                         *)
(* Conventions.                                                            *)
(*  - An optional JavaScript value (undefined / null, or a value) is a     *)
(*    sequence of length at most one: Null = <<>>, Some(v) = <<v>>.        *)
(*  - A JavaScript number that can be NaN is a record [nan, n].           *)
(*  - Time is counted in whole days since 1970-01-01 (UTC); a calendar    *)
(*    date "YYYY-MM-DD" is the number of that day.                         *)
(***************************************************************************)
EXTENDS Integers, Sequences, FiniteSets, TLC

VARIABLES
    fn,     \* the function being called
    arg,    \* its argument
    now,    \* the evaluator's clock (Date.now()), in days since the epoch
    pc,     \* "call" before the function has run, "done" after
    ret,    \* Null before the call, then Some([threw, value])
    res,        \* the HTTP response object a handler writes to
    calls,      \* the collaborators a handler has invoked, in order
    response,   \* what the GitHub API answered to a handler's fetch
    random      \* the generators seededRandom has created, one per call

vars == <<fn, arg, now, pc, ret, res, calls, response, random>>

-----------------------------------------------------------------------------
(* Bounds of the model *)

\* largest number of day entries of a generated calendar
MaxDays == 4

\* calendar dates of generated calendars are the days 0..MaxDate
MaxDate == 3

\* scores handed to calculateRank directly are -MaxScore..MaxScore
MaxScore == 2100

\* largest number of entries of a generated repository list
MaxRepos == 3

\* largest number of day entries handed to calculateMostActiveDay directly
MaxWeekdayEntries == 3

\* largest number of entries of a repository list generated for topRepos
MaxTopRepos == 4

\* largest number of entries of a repository list generated for topLanguages
MaxLangRepos == 6

\* the number of calls of generateSVG in one behaviour
MaxCalls == 2

\* largest number of entries of a repository list generated for the colors
MaxColorRepos == 3

\* commit counts handed to the impact score formulas are 0..MaxCommits
MaxCommits == 20

\* the other counters handed to the impact score formulas are 0..MaxCounter
MaxCounter == 2

-----------------------------------------------------------------------------
(* JavaScript values *)

Null == <<>>

Some(v) == <<v>>

\* x ?? d
Coalesce(x, d) == IF x = Null THEN d ELSE x[1]

\* obj?.key for an optional record
Chain(obj, key) == IF obj = Null THEN Null ELSE obj[1][key]

\* obj.key of an object literal: undefined when the object has no such key
Prop(obj, key) == IF key \in DOMAIN obj THEN Some(obj[key]) ELSE Null

\* x > n for an optional number: undefined > n is false
Gt(x, n) == x # Null /\ x[1] > n

Num(n) == [nan |-> FALSE, n |-> n]

NaN == [nan |-> TRUE, n |-> 0]

Max(a, b) == IF a >= b THEN a ELSE b

Min(a, b) == IF a <= b THEN a ELSE b

Returned(v) == Some([threw |-> FALSE, value |-> v])

Thrown(e) == Some([threw |-> TRUE, value |-> e])

-----------------------------------------------------------------------------
(* calculateStreaks *)

\* optional chaining guard of line 86: !contributionCalendar?.weeks
NoWeeks(contributionCalendar) ==
    \/ contributionCalendar = Null
    \/ contributionCalendar[1].weeks = Null

\* week.contributionDays.forEach on a week without contributionDays
\* raises a TypeError (lines 89-90, 136-137)
ForEachThrows(contributionCalendar) ==
    /\ ~NoWeeks(contributionCalendar)
    /\ \E w \in 1..Len(contributionCalendar[1].weeks[1]) :
           contributionCalendar[1].weeks[1][w].contributionDays = Null

RECURSIVE FlattenWeeks(_)
\* lines 88-93: allDays in week-major input order
FlattenWeeks(weeks) ==
    IF weeks = <<>> THEN <<>>
    ELSE LET days == Head(weeks).contributionDays[1]
         IN  [i \in 1..Len(days) |->
                 [date |-> days[i].date, count |-> days[i].contributionCount]]
             \o FlattenWeeks(Tail(weeks))

\* x goes after every entry whose date is not later than its own
InsertByDate(sorted, x) ==
    LET k == Cardinality({i \in 1..Len(sorted) : sorted[i].date <= x.date})
    IN  SubSeq(sorted, 1, k) \o <<x>> \o SubSeq(sorted, k + 1, Len(sorted))

SortByDateNone(allDays) == allDays

RECURSIVE SortByDate(_)
\* line 96: Array.prototype.sort with the date comparator, a stable sort
SortByDate(allDays) ==
    IF allDays = <<>> THEN <<>>
    ELSE InsertByDate(SortByDate(SubSeq(allDays, 1, Len(allDays) - 1)),
                      allDays[Len(allDays)])

RECURSIVE LongestScanNoReset(_, _, _, _)
LongestScanNoReset(allDays, i, tempStreak, longestStreak) ==
    IF i > Len(allDays) THEN longestStreak
    ELSE IF allDays[i].count > 0
         THEN LongestScanNoReset(allDays, i + 1, tempStreak + 1,
                                 Max(longestStreak, tempStreak + 1))
         ELSE LongestScanNoReset(allDays, i + 1, tempStreak, longestStreak)

RECURSIVE LongestScan(_, _, _, _)
\* lines 105-112: the forward scan
LongestScan(allDays, i, tempStreak, longestStreak) ==
    IF i > Len(allDays) THEN longestStreak
    ELSE IF allDays[i].count > 0
         THEN LongestScan(allDays, i + 1, tempStreak + 1,
                          Max(longestStreak, tempStreak + 1))
         ELSE LongestScan(allDays, i + 1, 0, longestStreak)

ScanEnteredAnyDate(dayDate, today, yesterday, currentStreak) == TRUE

\* line 117: the day is counted once the scan is at today or yesterday,
\* or a streak is already in progress
ScanEntered(dayDate, today, yesterday, currentStreak) ==
    dayDate = today \/ dayDate = yesterday \/ currentStreak > 0

ZeroDayAlwaysEndsScan(dayDate, today) == TRUE

\* line 120: a zero-count day ends the scan unless it is dated today
ZeroDayEndsScan(dayDate, today) == dayDate # today

RECURSIVE CurrentScan(_, _, _, _, _)
\* lines 115-124: the backward scan
CurrentScan(allDays, i, currentStreak, today, yesterday) ==
    IF i < 1 THEN currentStreak
    ELSE LET dayDate == allDays[i].date
         IN  IF ScanEntered(dayDate, today, yesterday, currentStreak)
             THEN IF allDays[i].count > 0
                  THEN CurrentScan(allDays, i - 1, currentStreak + 1,
                                   today, yesterday)
                  ELSE IF ZeroDayEndsScan(dayDate, today)
                       THEN currentStreak
                       ELSE CurrentScan(allDays, i - 1, currentStreak,
                                        today, yesterday)
             ELSE CurrentScan(allDays, i - 1, currentStreak, today, yesterday)

\* the sorted list of {date, count} the two scans read (lines 88-96)
AllDays(contributionCalendar) ==
    SortByDate(FlattenWeeks(contributionCalendar[1].weeks[1]))

\* lines 85-127, for a calendar on which forEach does not throw
calculateStreaks(contributionCalendar, clock) ==
    IF NoWeeks(contributionCalendar) THEN [current |-> 0, longest |-> 0]
    ELSE LET allDays == AllDays(contributionCalendar)
             today == clock
             yesterday == clock - 1
         IN  [current |-> CurrentScan(allDays, Len(allDays), 0, today, yesterday),
              longest |-> LongestScan(allDays, 1, 0, 0)]

-----------------------------------------------------------------------------
(* calculateRank and determineCodingPersona *)

RankAtOrAbove(score) ==
    IF score >= 2000 THEN [level |-> "S+", title |-> "LEGEND"]
    ELSE IF score >= 1000 THEN [level |-> "S", title |-> "MASTER"]
    ELSE IF score >= 500 THEN [level |-> "A+", title |-> "SENIOR"]
    ELSE IF score >= 250 THEN [level |-> "A", title |-> "EXPERT"]
    ELSE IF score >= 100 THEN [level |-> "B", title |-> "BUILDER"]
    ELSE IF score >= 50 THEN [level |-> "C", title |-> "CODER"]
    ELSE [level |-> "D", title |-> "ROOKIE"]

RankTiersSwapped(score) ==
    IF score > 2000 THEN [level |-> "S+", title |-> "LEGEND"]
    ELSE IF score > 1000 THEN [level |-> "A+", title |-> "SENIOR"]
    ELSE IF score > 500 THEN [level |-> "S", title |-> "MASTER"]
    ELSE IF score > 250 THEN [level |-> "A", title |-> "EXPERT"]
    ELSE IF score > 100 THEN [level |-> "B", title |-> "BUILDER"]
    ELSE IF score > 50 THEN [level |-> "C", title |-> "CODER"]
    ELSE [level |-> "D", title |-> "ROOKIE"]

\* lines 147-155
calculateRank(score) ==
    IF score > 2000 THEN [level |-> "S+", title |-> "LEGEND"]
    ELSE IF score > 1000 THEN [level |-> "S", title |-> "MASTER"]
    ELSE IF score > 500 THEN [level |-> "A+", title |-> "SENIOR"]
    ELSE IF score > 250 THEN [level |-> "A", title |-> "EXPERT"]
    ELSE IF score > 100 THEN [level |-> "B", title |-> "BUILDER"]
    ELSE IF score > 50 THEN [level |-> "C", title |-> "CODER"]
    ELSE [level |-> "D", title |-> "ROOKIE"]

PersonaStarsFirst(metrics) ==
    LET reviews == Prop(metrics, "reviews")
        stars == Prop(metrics, "stars")
        prs == Prop(metrics, "prs")
        commits == Prop(metrics, "commits")
        issues == Prop(metrics, "issues")
        discussions == Prop(metrics, "discussions")
    IN  IF Gt(stars, 500) THEN "Star Collector"
        ELSE IF Gt(reviews, 100) THEN "Code Guardian"
        ELSE IF Gt(prs, 200) THEN "PR Machine"
        ELSE IF Gt(commits, 2000) THEN "Commit Warrior"
        ELSE IF Gt(issues, 100) THEN "Issue Hunter"
        ELSE IF Gt(discussions, 50) THEN "Community Voice"
        ELSE IF Gt(reviews, 50) THEN "Review Master"
        ELSE IF Gt(stars, 100) THEN "Rising Star"
        ELSE IF Gt(prs, 50) THEN "Merge Master"
        ELSE "Code Explorer"

\* lines 158-171: the six counters are read off the object by name
determineCodingPersona(metrics) ==
    LET reviews == Prop(metrics, "reviews")
        stars == Prop(metrics, "stars")
        prs == Prop(metrics, "prs")
        commits == Prop(metrics, "commits")
        issues == Prop(metrics, "issues")
        discussions == Prop(metrics, "discussions")
    IN  IF Gt(reviews, 100) THEN "Code Guardian"
        ELSE IF Gt(stars, 500) THEN "Star Collector"
        ELSE IF Gt(prs, 200) THEN "PR Machine"
        ELSE IF Gt(commits, 2000) THEN "Commit Warrior"
        ELSE IF Gt(issues, 100) THEN "Issue Hunter"
        ELSE IF Gt(discussions, 50) THEN "Community Voice"
        ELSE IF Gt(reviews, 50) THEN "Review Master"
        ELSE IF Gt(stars, 100) THEN "Rising Star"
        ELSE IF Gt(prs, 50) THEN "Merge Master"
        ELSE "Code Explorer"

-----------------------------------------------------------------------------
(* calculateMostActiveDay *)

weekdayNames ==
    <<"Sunday", "Monday", "Tuesday", "Wednesday", "Thursday", "Friday", "Saturday">>

RECURSIVE SumCounts(_, _)
\* total contributionCount of the entries of allDays with the weekday wd
SumCounts(days, wd) ==
    IF days = <<>> THEN 0
    ELSE (IF Head(days).weekday = wd THEN Head(days).contributionCount ELSE 0)
         + SumCounts(Tail(days), wd)

RECURSIVE WeekDays(_)
\* the day entries of all weeks, in input order (lines 136-140)
WeekDays(weeks) ==
    IF weeks = <<>> THEN <<>>
    ELSE Head(weeks).contributionDays[1] \o WeekDays(Tail(weeks))

\* lines 133-140: weekdayTotals, indexed 1..7 for Sunday..Saturday
WeekdayTotals(contributionCalendar) ==
    LET days == WeekDays(contributionCalendar[1].weeks[1])
    IN  [k \in 1..7 |-> SumCounts(days, k - 1)]

LastMaxIndex(weekdayTotals) ==
    CHOOSE k \in 1..7 :
        /\ \A j \in 1..7 : weekdayTotals[j] <= weekdayTotals[k]
        /\ \A j \in (k + 1)..7 : weekdayTotals[j] # weekdayTotals[k]

\* line 142: weekdayTotals.indexOf(Math.max(...weekdayTotals)), 1-based
MaxIndex(weekdayTotals) ==
    CHOOSE k \in 1..7 :
        /\ \A j \in 1..7 : weekdayTotals[j] <= weekdayTotals[k]
        /\ \A j \in 1..(k - 1) : weekdayTotals[j] # weekdayTotals[k]

\* lines 130-144, for a calendar on which forEach does not throw
calculateMostActiveDay(contributionCalendar) ==
    IF NoWeeks(contributionCalendar) THEN "Sunday"
    ELSE weekdayNames[MaxIndex(WeekdayTotals(contributionCalendar))]

-----------------------------------------------------------------------------
(* mapMetrics *)

\* user?.<holder>?.totalCount ?? 0 (lines 176-183)
TotalCount(user, holder) == Coalesce(Chain(Chain(user, holder), "totalCount"), 0)

\* user?.contributionsCollection?.<field> ?? 0 (lines 174-175)
Contribution(user, field) ==
    Coalesce(Chain(Chain(user, "contributionsCollection"), field), 0)

\* user?.repositories?.nodes ?? [] (line 185)
Repos(user) == Coalesce(Chain(Chain(user, "repositories"), "nodes"), <<>>)

RECURSIVE SumField(_, _)
\* repos.reduce((sum, repo) => sum + (repo?.<field> ?? 0), 0) (lines 186-187)
SumField(repos, field) ==
    IF repos = <<>> THEN 0
    ELSE Coalesce(Chain(Head(repos), field), 0) + SumField(Tail(repos), field)

\* a string is truthy when it is present and not empty
Truthy(s) == s # Null /\ s[1] # ""

TopReposSliceFirst(repos) ==
    LET Named(r) == r # Null /\ r[1].name # Null /\ r[1].name[1] # ""
        named == SelectSeq(SubSeq(repos, 1, IF Len(repos) < 3 THEN Len(repos) ELSE 3),
                           Named)
    IN  [i \in 1..Len(named) |->
            [name |-> named[i][1].name[1],
             stars |-> IF named[i][1].stargazerCount = Null THEN 0
                       ELSE named[i][1].stargazerCount[1]]]

\* lines 190-193: filter, then slice, then map
TopRepos(repos) ==
    LET Named(r) == r # Null /\ Truthy(r[1].name)
        named == SelectSeq(repos, Named)
        first == SubSeq(named, 1, Min(3, Len(named)))
    IN  [i \in 1..Len(first) |->
            [name |-> first[i][1].name[1],
             stars |-> Coalesce(first[i][1].stargazerCount, 0)]]

\* repo?.primaryLanguage?.name is truthy (line 199)
HasLanguage(repo) == Truthy(Chain(Chain(repo, "primaryLanguage"), "name"))

RECURSIVE LangCountsLastColor(_)
LangCountsLastColor(repos) ==
    IF repos = <<>> THEN <<>>
    ELSE LET before == LangCountsLastColor(SubSeq(repos, 1, Len(repos) - 1))
             repo == repos[Len(repos)]
         IN  IF ~HasLanguage(repo) THEN before
             ELSE LET name == repo[1].primaryLanguage[1].name[1]
                      color == repo[1].primaryLanguage[1].color
                  IN  IF \E i \in 1..Len(before) : before[i].name = name
                      THEN [i \in 1..Len(before) |->
                               IF before[i].name = name
                               THEN [before[i] EXCEPT !.count = @ + 1, !.color = color]
                               ELSE before[i]]
                      ELSE Append(before, [name |-> name, count |-> 1, color |-> color])

RECURSIVE LangCounts(_)
\* lines 196-206: langCounts as the list of its entries in insertion order
LangCounts(repos) ==
    IF repos = <<>> THEN <<>>
    ELSE LET before == LangCounts(SubSeq(repos, 1, Len(repos) - 1))
             repo == repos[Len(repos)]
         IN  IF ~HasLanguage(repo) THEN before
             ELSE LET name == repo[1].primaryLanguage[1].name[1]
                      color == repo[1].primaryLanguage[1].color
                  IN  IF \E i \in 1..Len(before) : before[i].name = name
                      THEN [i \in 1..Len(before) |->
                               IF before[i].name = name
                               THEN [before[i] EXCEPT !.count = @ + 1]
                               ELSE before[i]]
                      ELSE Append(before, [name |-> name, count |-> 1, color |-> color])

\* totalReposWithLang (lines 197, 204)
TotalReposWithLang(repos) ==
    Cardinality({i \in 1..Len(repos) : HasLanguage(repos[i])})

\* x goes after every entry whose count is not smaller than its own
InsertByCount(sorted, x) ==
    LET k == Cardinality({i \in 1..Len(sorted) : sorted[i].count >= x.count})
    IN  SubSeq(sorted, 1, k) \o <<x>> \o SubSeq(sorted, k + 1, Len(sorted))

RECURSIVE SortByCount(_)
\* line 209: the stable sort by descending count
SortByCount(entries) ==
    IF entries = <<>> THEN <<>>
    ELSE InsertByCount(SortByCount(SubSeq(entries, 1, Len(entries) - 1)),
                       entries[Len(entries)])

PercentFloor(count, total) ==
    IF total > 0 THEN (100 * count) \div total ELSE 0

\* Math.round((count / total) * 100) for total > 0 (line 214)
Percent(count, total) ==
    IF total > 0 THEN (200 * count + total) \div (2 * total) ELSE 0

\* lines 208-215
TopLanguages(repos) ==
    LET sorted == SortByCount(LangCounts(repos))
        first == SubSeq(sorted, 1, Min(4, Len(sorted)))
        total == TotalReposWithLang(repos)
    IN  [i \in 1..Len(first) |->
            [name |-> first[i].name,
             color |-> IF Truthy(first[i].color) THEN first[i].color[1] ELSE "#ccc",
             percent |-> Percent(first[i].count, total)]]

Leap(y) == (y % 4 = 0 /\ y % 100 # 0) \/ y % 400 = 0

DaysIn(y) == IF Leap(y) THEN 366 ELSE 365

RECURSIVE YearFrom(_, _)
\* the calendar year of a day counted from January 1st of year y
YearFrom(day, y) == IF day < DaysIn(y) THEN y ELSE YearFrom(day - DaysIn(y), y + 1)

\* new Date(user?.createdAt).getTime() (line 224): NaN for an undefined
\* createdAt, the day otherwise
CreatedTime(user) ==
    LET createdAt == Chain(user, "createdAt")
    IN  IF createdAt = Null THEN NaN ELSE Num(createdAt[1])

\* line 225: floor((Date.now() - created) / 365.25 days)
AccountAge(created, clock) ==
    IF created.nan THEN NaN ELSE Num(((clock - created.n) * 4) \div 1461)

\* line 263: createdDate.getFullYear()
CreatedYear(created) ==
    IF created.nan THEN NaN ELSE Num(YearFrom(created.n, 1970))

ImpactScoreCommitsFirst(reviews, discussions, commits, stars, prs, closedIssues) ==
    (reviews + 20 * discussions + 30 * commits + 20 * stars + 15 * prs
        + 10 * closedIssues) \div 10

ImpactScoreFourTerms(reviews, discussions, commits, stars, prs, closedIssues) ==
    (20 * reviews + 30 * discussions + commits + 15 * stars) \div 10

\* lines 228-235: floor(reviews*3 + discussions*2 + commits*0.1 + stars*2
\*                      + prs*1.5 + closedIssues*1)
ImpactScore(reviews, discussions, commits, stars, prs, closedIssues) ==
    (30 * reviews + 20 * discussions + commits + 20 * stars + 15 * prs
        + 10 * closedIssues) \div 10

\* user?.name || user?.login (line 241)
DisplayName(user) ==
    IF Truthy(Chain(user, "name")) THEN Chain(user, "name") ELSE Chain(user, "login")

\* lines 173-264: the object literal basicMetrics
BasicMetrics(user, clock) ==
    LET commits == Contribution(user, "totalCommitContributions")
        reviews == Contribution(user, "totalPullRequestReviewContributions")
        discussions == TotalCount(user, "repositoryDiscussionComments")
        closedIssues == TotalCount(user, "issues")
        prs == TotalCount(user, "pullRequests")
        repos == Repos(user)
        stars == SumField(repos, "stargazerCount")
        calendar == Chain(Chain(user, "contributionsCollection"), "contributionCalendar")
        streaks == calculateStreaks(calendar, clock)
        created == CreatedTime(user)
        impactScore == ImpactScore(reviews, discussions, commits, stars, prs, closedIssues)
    IN  [username |-> Chain(user, "login"),
         name |-> DisplayName(user),
         avatar |-> Chain(user, "avatarUrl"),
         commits |-> commits,
         reviews |-> reviews,
         discussions |-> discussions,
         closedIssues |-> closedIssues,
         prs |-> prs,
         stars |-> stars,
         forks |-> SumField(repos, "forkCount"),
         followers |-> TotalCount(user, "followers"),
         following |-> TotalCount(user, "following"),
         gists |-> TotalCount(user, "gists"),
         sponsorships |-> TotalCount(user, "sponsorshipsAsSponsor"),
         orgs |-> TotalCount(user, "organizations"),
         topRepos |-> TopRepos(repos),
         topLanguages |-> TopLanguages(repos),
         currentStreak |-> streaks.current,
         longestStreak |-> streaks.longest,
         mostActiveDay |-> calculateMostActiveDay(calendar),
         accountAge |-> AccountAge(created, clock),
         impactScore |-> impactScore,
         rank |-> calculateRank(impactScore),
         createdYear |-> CreatedYear(created)]

\* line 266: basicMetrics.persona = determineCodingPersona(basicMetrics)
WithPersona(basicMetrics) ==
    [k \in DOMAIN basicMetrics \cup {"persona"} |->
        IF k = "persona" THEN determineCodingPersona(basicMetrics)
        ELSE basicMetrics[k]]

\* lines 173-269: the record returned, or the TypeError of a forEach on a
\* week that has no contributionDays (lines 218, 221)
mapMetrics(user, clock) ==
    IF ForEachThrows(Chain(Chain(user, "contributionsCollection"), "contributionCalendar"))
    THEN Thrown("TypeError")
    ELSE Returned(WithPersona(BasicMetrics(user, clock)))

-----------------------------------------------------------------------------
(* The inputs of a call *)

\* a day entry as the data source sends it: 1970-01-01 was a Thursday
Day(d, c) == [date |-> d, contributionCount |-> c, weekday |-> (d + 4) % 7]

Week(days) == [contributionDays |-> Some(days)]

RECURSIVE WeeksOf(_)
\* the day entries split, in order, into weeks of at most two entries
WeeksOf(days) ==
    IF Len(days) <= 2 THEN <<Week(days)>>
    ELSE <<Week(SubSeq(days, 1, 2))>> \o WeeksOf(SubSeq(days, 3, Len(days)))

Calendar(days) == Some([weeks |-> Some(WeeksOf(days))])

SeqsUpTo(S, n) == UNION {[1..k -> S] : k \in 0..n}

\* every list of at most MaxDays entries with dates 0..MaxDate, in any
\* order, repeated dates included
GeneratedCalendars ==
    {Calendar(days) :
        days \in SeqsUpTo({Day(d, c) : d \in 0..MaxDate, c \in {0, 1}}, MaxDays)}

AbsentCalendars == {Null, Some([weeks |-> Null])}

\* counts 1,1,0,1,1,1,0 on the seven days 0..6
ExampleCalendar ==
    Calendar(<<Day(0, 1), Day(1, 1), Day(2, 0), Day(3, 1), Day(4, 1), Day(5, 1),
               Day(6, 0)>>)

PersonaInputs ==
    [reviews : {0, 50, 51, 100, 101, 150},
     stars : {0, 100, 101, 500, 501, 1000},
     prs : {0, 50, 51, 200, 201},
     commits : {0, 2000, 2001},
     issues : {0, 100, 101},
     discussions : {0, 50, 51}]

EmptyUser ==
    [login |-> Null, name |-> Null, createdAt |-> Null, avatarUrl |-> Null,
     followers |-> Null, following |-> Null, gists |-> Null,
     sponsorshipsAsSponsor |-> Null, contributionsCollection |-> Null,
     repositoryDiscussionComments |-> Null, issues |-> Null,
     pullRequests |-> Null, organizations |-> Null, repositories |-> Null]

\* a holder of a totalCount: absent, without its totalCount, or with one of S
Holders(S) == {Null, Some([totalCount |-> Null])} \cup {Some([totalCount |-> Some(n)]) : n \in S}

Contributions(commits, reviews, calendar) ==
    Some([totalCommitContributions |-> commits,
          totalPullRequestReviewContributions |-> reviews,
          contributionCalendar |-> calendar])

Repo(name, stars, forks, language) ==
    Some([name |-> name, stargazerCount |-> stars, forkCount |-> forks,
          primaryLanguage |-> language])

Language(name, color) == Some([name |-> name, color |-> color])

Repositories(nodes) == Some([nodes |-> Some(nodes)])

RepoValues ==
    {Null,
     Repo(Some("alpha"), Some(600), Some(1), Language(Some("A"), Some("#111"))),
     Repo(Some("beta"), Some(120), Some(0), Language(Some("B"), Null)),
     Repo(Some("gamma"), Some(0), Some(2), Language(Some("A"), Some("#222"))),
     Repo(Some(""), Null, Null, Null),
     Repo(Null, Some(7), Null, Language(Null, Null))}

\* profiles that differ in the counters the score and the persona read
CounterUsers ==
    {[EmptyUser EXCEPT
        !.login = Some("octocat"),
        !.contributionsCollection = Contributions(c, r, Null),
        !.repositoryDiscussionComments = d,
        !.issues = i,
        !.pullRequests = p,
        !.repositories = s] :
        c \in {Null, Some(15), Some(2001)},
        r \in {Null, Some(51), Some(101)},
        d \in Holders({51}),
        i \in Holders({100, 101}),
        p \in Holders({1, 201}),
        s \in {Null,
               Repositories(<<Repo(Some("alpha"), Some(101), Some(3), Null)>>),
               Repositories(<<Repo(Some("alpha"), Some(500), Some(3), Null),
                              Repo(Some("beta"), Some(1), Null, Null)>>)}}

\* profiles whose closed-issue count alone places the score at, just below
\* and just above every threshold of the rank table
ScoreUsers ==
    {[EmptyUser EXCEPT !.issues = Some([totalCount |-> Some(n)])] :
        n \in {49, 50, 51, 99, 100, 101, 249, 250, 251, 499, 500, 501,
               999, 1000, 1001, 1999, 2000, 2001}}

\* profiles that differ in the counters that are only copied
CopiedCounterUsers ==
    {[EmptyUser EXCEPT
        !.followers = a, !.following = b, !.gists = c,
        !.sponsorshipsAsSponsor = d, !.organizations = e] :
        a \in Holders({3}), b \in Holders({4}), c \in Holders({5}),
        d \in Holders({6}), e \in Holders({7})}

\* profiles that differ in identity and creation date, read at clock n
IdentityUsers(n) ==
    {[EmptyUser EXCEPT
        !.login = l, !.name = m, !.avatarUrl = a, !.createdAt = t] :
        l \in {Null, Some("octocat")},
        m \in {Null, Some(""), Some("The Octocat")},
        a \in {Null, Some("https://avatars/1")},
        t \in {Null, Some(0), Some(n), Some(n + 1), Some(n + 400)}
              \cup (IF n > 1500 THEN {Some(n - 1500)} ELSE {})}

\* contribution collections with an object missing at every depth; the
\* calendars are dated around the clock n
StructureContributions(n) ==
    {Null} \cup
    {Contributions(c, c, k) :
        c \in {Null, Some(12)},
        k \in AbsentCalendars \cup
              {Some([weeks |-> Some(<<>>)]),
               Some([weeks |-> Some(<<[contributionDays |-> Null]>>)]),
               Some([weeks |-> Some(<<Week(<<Day(n - 1, 2)>>),
                                      [contributionDays |-> Null]>>)]),
               Some([weeks |-> Some(<<Week(<<>>)>>)]),
               Calendar(<<Day(n - 2, 1), Day(n - 1, 3), Day(n, 0)>>),
               Calendar(<<Day(n - 1, 1), Day(n, 0), Day(n, 2)>>)}}

StructureRepositories ==
    {Null, Some([nodes |-> Null])}
    \cup {Repositories(nodes) : nodes \in SeqsUpTo(RepoValues, MaxRepos)}

StructureUsers(n) ==
    {[EmptyUser EXCEPT !.contributionsCollection = c, !.repositories = r] :
        c \in StructureContributions(n), r \in StructureRepositories}

\* the profiles handed to mapMetrics at clock n: no profile at all, the
\* empty profile, and the families above
Users(n) ==
    {Null} \cup
    {Some(u) : u \in {EmptyUser} \cup CounterUsers \cup ScoreUsers
                     \cup CopiedCounterUsers \cup IdentityUsers(n)
                     \cup StructureUsers(n)}

-----------------------------------------------------------------------------
(* The calls *)

InitStreaks ==
    /\ fn = "calculateStreaks"
    /\ \/ now \in 1..MaxDate /\ arg \in GeneratedCalendars \cup AbsentCalendars
       \/ now = 8 /\ arg = ExampleCalendar

InitRank ==
    /\ fn = "calculateRank"
    /\ now = 0
    /\ arg \in (0 - MaxScore)..MaxScore

InitPersona ==
    /\ fn = "determineCodingPersona"
    /\ now = 0
    /\ arg \in PersonaInputs

InitMetrics ==
    /\ fn = "mapMetrics"
    /\ now \in {2, 20000}
    /\ arg \in Users(now)

\* before a call: nothing returned, no response written, nothing fetched
Fresh ==
    /\ pc = "call"
    /\ ret = Null
    /\ res = [allowOrigin |-> "", allowMethods |-> "", status |-> 0,
              contentType |-> "", cacheControl |-> "", body |-> Null, sent |-> 0]
    /\ calls = <<>>
    /\ response = Null
    /\ random = <<>>

Init ==
    /\ Fresh
    /\ InitStreaks \/ InitRank \/ InitPersona \/ InitMetrics

CalculateStreaks ==
    /\ pc = "call"
    /\ fn = "calculateStreaks"
    /\ ret' = IF ForEachThrows(arg) THEN Thrown("TypeError")
              ELSE Returned(calculateStreaks(arg, now))
    /\ pc' = "done"
    /\ UNCHANGED <<fn, arg, now, res, calls, response, random>>

CalculateRank ==
    /\ pc = "call"
    /\ fn = "calculateRank"
    /\ ret' = Returned(calculateRank(arg))
    /\ pc' = "done"
    /\ UNCHANGED <<fn, arg, now, res, calls, response, random>>

DetermineCodingPersona ==
    /\ pc = "call"
    /\ fn = "determineCodingPersona"
    /\ ret' = Returned(determineCodingPersona(arg))
    /\ pc' = "done"
    /\ UNCHANGED <<fn, arg, now, res, calls, response, random>>

MapMetrics ==
    /\ pc = "call"
    /\ fn = "mapMetrics"
    /\ ret' = mapMetrics(arg, now)
    /\ pc' = "done"
    /\ UNCHANGED <<fn, arg, now, res, calls, response, random>>

Next == CalculateStreaks \/ CalculateRank \/ DetermineCodingPersona \/ MapMetrics

Spec == Init /\ [][Next]_vars

\* a day entry with the weekday w: 1970-01-04, day 3, was a Sunday
WeekdayEntry(w, c) == [date |-> w + 3, contributionCount |-> c, weekday |-> w]

\* every list of at most MaxWeekdayEntries entries on any weekdays, and the
\* calendars with equal totals on Sunday and Wednesday
WeekdayCalendars ==
    {Calendar(days) :
        days \in SeqsUpTo({WeekdayEntry(w, c) : w \in 0..6, c \in {0, 1, 2}},
                          MaxWeekdayEntries)}
    \cup {Calendar(<<WeekdayEntry(3, 4), WeekdayEntry(1, 2), WeekdayEntry(0, 4)>>),
          Calendar(<<WeekdayEntry(0, 2), WeekdayEntry(3, 5), WeekdayEntry(0, 3),
                     WeekdayEntry(6, 1)>>)}

InitMostActiveDay ==
    /\ Fresh
    /\ fn = "calculateMostActiveDay"
    /\ now = 0
    /\ arg \in WeekdayCalendars \cup AbsentCalendars

CalculateMostActiveDay ==
    /\ pc = "call"
    /\ fn = "calculateMostActiveDay"
    /\ ret' = IF ForEachThrows(arg) THEN Thrown("TypeError")
              ELSE Returned(calculateMostActiveDay(arg))
    /\ pc' = "done"
    /\ UNCHANGED <<fn, arg, now, res, calls, response, random>>

\* calls of calculateMostActiveDay alone
SpecMostActiveDay == InitMostActiveDay /\ [][CalculateMostActiveDay]_vars

\* calls of calculateRank alone
InitRankAlone == Fresh /\ InitRank

SpecRank == InitRankAlone /\ [][CalculateRank]_vars

\* repositories that differ in having a name
TopRepoValues ==
    {Null,
     Repo(Some("alpha"), Some(9), Null, Null),
     Repo(Some("beta"), Some(5), Null, Null),
     Repo(Some(""), Some(3), Null, Null),
     Repo(Null, Some(2), Null, Null)}

LanguageRepo(l) == Repo(Some("r"), Some(1), Null, Language(Some(l), Some("#111")))

\* repository lists for topRepos, lists over three languages and no
\* language, and shorter lists over five languages
RepoLists ==
    SeqsUpTo(TopRepoValues, MaxTopRepos)
    \cup SeqsUpTo({Repo(Some("r"), Some(1), Null, Null)}
                  \cup {LanguageRepo(l) : l \in {"A", "B", "C"}}, MaxLangRepos)
    \cup SeqsUpTo({LanguageRepo(l) : l \in {"A", "B", "C", "D", "E"}}, MaxLangRepos - 1)

InitRepos ==
    /\ Fresh
    /\ fn = "mapMetrics"
    /\ now = 20000
    /\ arg \in {Some([EmptyUser EXCEPT !.login = Some("octocat"),
                                       !.createdAt = Some(16436),
                                       !.repositories = Repositories(nodes)]) :
                   nodes \in RepoLists}

\* calls of mapMetrics on profiles that differ in the repository list
SpecRepos == InitRepos /\ [][MapMetrics]_vars

------------------------------------------------------------------------------
(* The request handlers *)

\* lines 272-369: the keys of the object literal themes
ThemeNames ==
    {"default", "glass", "snow_globe", "lava_lamp", "matrix", "dracula", "nord",
     "cyberpunk"}

\* keys that the object literal themes inherits from Object.prototype; the
\* value of each is a function or an object, so it is truthy and has no
\* bgGradient
InheritedNames ==
    {"constructor", "__proto__", "toString", "toLocaleString", "valueOf",
     "hasOwnProperty", "isPrototypeOf", "propertyIsEnumerable"}

\* themes[themeName]: undefined for a name that is no key
themes(themeName) ==
    IF themeName \in ThemeNames THEN Some([own |-> TRUE, name |-> themeName])
    ELSE IF themeName \in InheritedNames
         THEN Some([own |-> FALSE, name |-> themeName])
         ELSE Null

\* themes[themeName] || themes.default (lines 464, 733)
ThemeOrDefault(themeName) ==
    Coalesce(themes(themeName), [own |-> TRUE, name |-> "default"])

\* a string as the sequence of its characters
DigitChars == <<"0", "1", "2", "3", "4", "5", "6", "7", "8", "9">>

HexChars == DigitChars \o <<"a", "b", "c", "d", "e", "f">>

\* the number of leading characters of s that are in the set S
Leading(s, S) ==
    CHOOSE k \in 0..Len(s) :
        /\ \A i \in 1..k : s[i] \in S
        /\ k = Len(s) \/ s[k + 1] \notin S

RECURSIVE ValueIn(_, _)
\* the value of the digits s in the radix Len(digits)
ValueIn(s, digits) ==
    IF s = <<>> THEN 0
    ELSE ValueIn(SubSeq(s, 1, Len(s) - 1), digits) * Len(digits)
         + (CHOOSE v \in 0..(Len(digits) - 1) : digits[v + 1] = s[Len(s)])

\* parseInt(x) without a radix: leading blanks are skipped, a sign is read,
\* a 0x prefix selects radix 16, and the longest prefix of digits is the
\* value; NaN when there is no digit or x is undefined (line 731)
ParseInt(x) ==
    IF x = Null THEN NaN
    ELSE LET s == SubSeq(x[1], Leading(x[1], {" "}) + 1, Len(x[1]))
             signed == s # <<>> /\ s[1] \in {"+", "-"}
             u == IF signed THEN Tail(s) ELSE s
             hex == Len(u) >= 2 /\ u[1] = "0" /\ u[2] \in {"x", "X"}
             body == IF hex THEN SubSeq(u, 3, Len(u)) ELSE u
             digits == IF hex THEN HexChars ELSE DigitChars
             n == Leading(body, {digits[i] : i \in 1..Len(digits)})
             v == ValueIn(SubSeq(body, 1, n), digits)
         IN  IF n = 0 THEN NaN
             ELSE Num(IF signed /\ s[1] = "-" THEN 0 - v ELSE v)

\* line 731: Math.min(10, Math.max(0, parseInt(chaos) || 5)); NaN and 0
\* are falsy
ChaosLevel(chaos) ==
    LET parsed == ParseInt(chaos)
        level == IF parsed.nan \/ parsed.n = 0 THEN 5 ELSE parsed.n
    IN  Min(10, Max(0, level))

\* error.message.substring(0, 50) takes at most this many characters
\* (line 769)
SubstringLimit == 50

\* message.substring(0, SubstringLimit)
Substring(message) == SubSeq(message, 1, Min(SubstringLimit, Len(message)))

\* the message of the TypeError of week.contributionDays.forEach (line 89),
\* as Node words it
ForEachMessage ==
    <<"C", "a", "n", "n", "o", "t", " ", "r", "e", "a", "d", " ", "p", "r",
      "o", "p", "e", "r", "t", "i", "e", "s", " ", "o", "f", " ", "u", "n",
      "d", "e", "f", "i", "n", "e", "d", " ", "(", "r", "e", "a", "d", "i",
      "n", "g", " ", "'", "f", "o", "r", "E", "a", "c", "h", "'", ")">>

\* the message of the TypeError of theme.bgGradient[0] (lines 649, 705)
BgGradientMessage ==
    <<"C", "a", "n", "n", "o", "t", " ", "r", "e", "a", "d", " ", "p", "r",
      "o", "p", "e", "r", "t", "i", "e", "s", " ", "o", "f", " ", "u", "n",
      "d", "e", "f", "i", "n", "e", "d", " ", "(", "r", "e", "a", "d", "i",
      "n", "g", " ", "'", "0", "'", ")">>

\* the message of the TypeError of body.errors on a body that is null
\* (line 66)
NullBodyMessage ==
    <<"C", "a", "n", "n", "o", "t", " ", "r", "e", "a", "d", " ", "p", "r",
      "o", "p", "e", "r", "t", "i", "e", "s", " ", "o", "f", " ", "n", "u",
      "l", "l", " ", "(", "r", "e", "a", "d", "i", "n", "g", " ", "'", "e",
      "r", "r", "o", "r", "s", "'", ")">>

\* the message of the TypeError of repo.primaryLanguage on a repository
\* that is null (src/api/index.js line 79)
NullRepoMessage ==
    <<"C", "a", "n", "n", "o", "t", " ", "r", "e", "a", "d", " ", "p", "r",
      "o", "p", "e", "r", "t", "i", "e", "s", " ", "o", "f", " ", "n", "u",
      "l", "l", " ", "(", "r", "e", "a", "d", "i", "n", "g", " ", "'", "p",
      "r", "i", "m", "a", "r", "y", "L", "a", "n", "g", "u", "a", "g", "e",
      "'", ")">>

RECURSIVE Join(_)
\* errors.map(e => e.message).join("; ")
Join(errors) ==
    IF errors = <<>> THEN <<>>
    ELSE IF Len(errors) = 1 THEN errors[1].message
    ELSE errors[1].message \o <<";", " ">> \o Join(Tail(errors))

\* lines 58-68, on the outcome of fetch: the data returned, or the message
\* of the error thrown
fetchGitHubData(outcome) ==
    IF outcome.kind \in {"rejected", "invalid"} THEN Thrown(outcome.text)
    ELSE IF outcome.kind = "text" THEN Thrown(outcome.text)
    ELSE IF outcome.body = Null THEN Thrown(NullBodyMessage)
    ELSE IF outcome.body[1].errors # Null THEN Thrown(Join(outcome.body[1].errors[1]))
    ELSE Returned(outcome.body[1].data)

\* an error message of src/api/index.js: a literal prefix, the status put
\* after it (followed by "): "), and the text that follows
ApiMessage(prefix, status, text) == [prefix |-> prefix, status |-> status, text |-> text]

\* src/api/index.js lines 47-64
ApiFetchGitHubData(outcome) ==
    IF outcome.kind \in {"rejected", "invalid"}
    THEN Thrown(ApiMessage("", Null, outcome.text))
    ELSE IF outcome.kind = "text"
    THEN Thrown(ApiMessage("GitHub API error (", Some(outcome.status),
                           outcome.text))
    ELSE IF outcome.body = Null THEN Thrown(ApiMessage("", Null, NullBodyMessage))
    ELSE IF outcome.body[1].errors # Null
    THEN Thrown(ApiMessage("GitHub API returned errors: ", Null,
                           Join(outcome.body[1].errors[1])))
    ELSE Returned(outcome.body[1].data)

\* the two setHeader calls every handler starts with (lines 721-722)
AllowHeaders(r) == [r EXCEPT !.allowOrigin = "*", !.allowMethods = "GET"]

\* setHeader("Content-Type", ...) and setHeader("Cache-Control", ...)
SetHeaders(r, contentType, cacheControl) ==
    [r EXCEPT !.contentType = contentType, !.cacheControl = cacheControl]

\* res.status(code)
Status(r, code) == [r EXCEPT !.status = code]

\* res.send(body), res.json(body)
Send(r, body) == [r EXCEPT !.body = Some(body), !.sent = @ + 1]

\* the outcome of a handler: the response object, the handler's own
\* completion, and the functions it called, in order
Outcome(r, completion, called) == [res |-> r, ret |-> completion, calls |-> called]

\* a template literal: a literal prefix followed by an interpolated text
Message(prefix, text) == [prefix |-> prefix, text |-> text]

\* lines 701-718: the error image, or the TypeError of theme.bgGradient[0]
\* on a theme value that has no bgGradient
generateErrorSVG(message, theme) ==
    IF theme.own
    THEN Returned([kind |-> "errorSvg", theme |-> theme.name, message |-> message])
    ELSE Thrown(BgGradientMessage)

\* lines 463-698: the card, or the TypeError of theme.bgGradient[0]
generateSVG(metrics, themeName, chaosLevel) ==
    LET theme == ThemeOrDefault(themeName)
    IN  IF theme.own
        THEN Returned([kind |-> "card", theme |-> theme.name,
                       chaosLevel |-> chaosLevel, metrics |-> metrics])
        ELSE Thrown(BgGradientMessage)

\* the two setHeader calls and res.status(code).send(generateErrorSVG(...))
\* of lines 737-739, 744-746, 753-755, 767-769: the status is set before the
\* image is generated, and nothing is sent when generating it throws
SendErrorSVG(r, code, message, theme, called) ==
    LET r1 == Status(SetHeaders(r, "image/svg+xml", "no-cache"), code)
        svg == generateErrorSVG(message, theme)
        called1 == Append(called, "generateErrorSVG")
    IN  IF svg[1].threw THEN Outcome(r1, svg, called1)
        ELSE Outcome(Send(r1, svg[1].value), Returned("sent"), called1)

\* req.query?.<key>
Query(req, key) == Chain(req.query, key)

\* line 730: req.query?.theme || 'default'
ThemeName(req) == IF Truthy(Query(req, "theme")) THEN Query(req, "theme")[1] ELSE "default"

AnyMethodAllowed(req) == TRUE

\* lines 724, src/api/index.js 203: req.method !== "GET" is rejected
MethodAllowed(req) == req.method = "GET"

\* lines 765-770: the catch block
Catch(r, message, theme, called) ==
    SendErrorSVG(r, 500, Message("API Error: ", Substring(message)), theme, called)

\* lines 720-747: the handler up to its await; ret is Null when it goes on
\* to fetch
handler(req, r) ==
    LET r0 == AllowHeaders(r)
        theme == ThemeOrDefault(ThemeName(req))
    IN  IF ~MethodAllowed(req)
        THEN Outcome(Send(Status(r0, 405), [kind |-> "json", error |-> "Method not allowed"]),
                     Returned("sent"), <<>>)
        ELSE IF ~Truthy(req.token)
        THEN SendErrorSVG(r0, 500,
                          Message("Server missing GH_TOKEN environment variable", ""),
                          theme, <<>>)
        ELSE IF ~Truthy(Query(req, "username"))
        THEN SendErrorSVG(r0, 400, Message("Missing required parameter: username", ""),
                          theme, <<>>)
        ELSE Outcome(r0, Null, <<"fetchGitHubData">>)

\* lines 749-770: the handler after its await, on the outcome of fetch
handlerAfterFetch(req, r, outcome, clock, called) ==
    LET theme == ThemeOrDefault(ThemeName(req))
        data == fetchGitHubData(outcome)
    IN  IF data[1].threw THEN Catch(r, data[1].value, theme, called)
        ELSE IF Chain(data[1].value, "user") = Null
        THEN LET notFound ==
                     SendErrorSVG(r, 404,
                                  Message("User not found: ", Query(req, "username")[1]),
                                  theme, called)
             IN  IF notFound.ret[1].threw
                 THEN Catch(notFound.res, notFound.ret[1].value, theme, notFound.calls)
                 ELSE notFound
        ELSE LET metrics == mapMetrics(data[1].value[1].user, clock)
                 called1 == Append(called, "mapMetrics")
             IN  IF metrics[1].threw THEN Catch(r, ForEachMessage, theme, called1)
                 ELSE LET svg == generateSVG(metrics[1].value, ThemeName(req),
                                             ChaosLevel(Query(req, "chaos")))
                          called2 == Append(called1, "generateSVG")
                      IN  IF svg[1].threw THEN Catch(r, svg[1].value, theme, called2)
                          ELSE Outcome(
                                   Send(Status(SetHeaders(r, "image/svg+xml",
                                           "public, max-age=14400, s-maxage=14400"), 200),
                                        svg[1].value),
                                   Returned("sent"), called2)

\* src/api/index.js lines 91-93: floor(reviews*2 + discussionComments*3
\*                                      + commits*0.1 + stars*1.5)
ApiImpactScore(reviews, discussionComments, commits, stars) ==
    (20 * reviews + 30 * discussionComments + commits + 15 * stars) \div 10

\* src/api/index.js lines 66-108: the record returned, or the TypeError of
\* repo.primaryLanguage on a repository that is null (line 79)
ApiMapMetrics(user, clock) ==
    LET commits == Contribution(user, "totalCommitContributions")
        reviews == Contribution(user, "totalPullRequestReviewContributions")
        discussionComments == TotalCount(user, "repositoryDiscussionComments")
        repos == Repos(user)
        stars == SumField(repos, "stargazerCount")
        langStats == SortByCount(LangCounts(repos))
        createdYear == CreatedYear(CreatedTime(user))
    IN  IF \E i \in 1..Len(repos) : repos[i] = Null THEN Thrown(NullRepoMessage)
        ELSE Returned(
            [username |-> Chain(user, "login"),
             commits |-> commits,
             reviews |-> reviews,
             discussionComments |-> discussionComments,
             closedIssues |-> TotalCount(user, "issues"),
             stars |-> stars,
             impactScore |-> ApiImpactScore(reviews, discussionComments, commits, stars),
             topLanguage |-> IF langStats = <<>> THEN "Polyglot" ELSE langStats[1].name,
             topLanguageColor |->
                 IF langStats # <<>> /\ Truthy(langStats[1].color)
                 THEN langStats[1].color[1] ELSE "#586069",
             yearsActive |-> IF createdYear.nan THEN NaN
                             ELSE Num(YearFrom(clock, 1970) - createdYear.n),
             createdYear |-> createdYear])

\* src/api/index.js lines 200-207: the handler up to its await
ApiHandler(req, r) ==
    LET r0 == AllowHeaders(r)
    IN  IF ~MethodAllowed(req)
        THEN Outcome(Send(Status(r0, 405), [kind |-> "json", error |-> "Method not allowed"]),
                     Returned("sent"), <<>>)
        ELSE IF ~Truthy(req.token) \/ ~Truthy(Query(req, "username"))
        THEN Outcome(Send(Status(r0, 400), [kind |-> "text", text |-> "Missing parameters"]),
                     Returned("sent"), <<>>)
        ELSE Outcome(r0, Null, <<"fetchGitHubData">>)

\* src/api/index.js lines 219-222: the catch block
ApiCatch(r, message, called) ==
    Outcome(Send(Status(r, 500), [kind |-> "plainSvg", message |-> Message("Error: ", message)]),
            Returned("sent"), called)

\* src/api/index.js lines 209-222: the handler after its await
ApiHandlerAfterFetch(req, r, outcome, clock, called) ==
    LET data == ApiFetchGitHubData(outcome)
    IN  IF data[1].threw THEN ApiCatch(r, data[1].value, called)
        ELSE IF Chain(data[1].value, "user") = Null
        THEN Outcome(Send(Status(r, 404), [kind |-> "text", text |-> "User not found"]),
                     Returned("sent"), called)
        ELSE LET metrics == ApiMapMetrics(data[1].value[1].user, clock)
                 called1 == Append(called, "mapMetrics")
             IN  IF metrics[1].threw
                 THEN ApiCatch(r, ApiMessage("", Null, metrics[1].value), called1)
                 ELSE Outcome(
                          Send(Status(SetHeaders(r, "image/svg+xml",
                                  "public, max-age=14400, s-maxage=14400"), 200),
                               [kind |-> "card", metrics |-> metrics[1].value]),
                          Returned("sent"), Append(called1, "generateSVG"))

\* the longest error text generated
MaxMessageLen == 52

\* a text of n characters in which neighbours differ
TextOfLength(n) == [i \in 1..n |-> DigitChars[(i % 10) + 1]]

\* error texts around the limit of substring, and an empty and a short one
ErrorTexts ==
    {TextOfLength(n) : n \in {0, 2} \cup ((SubstringLimit - 1)..MaxMessageLen)}

\* values of the chaos query parameter
ChaosValues ==
    {Null, Some(<<>>), Some(<<"0">>), Some(<<"3">>), Some(<<"1", "0">>),
     Some(<<"1", "1">>), Some(<<"-", "2">>), Some(<<"x">>), Some(<<"7", "x">>),
     Some(<<" ", "8">>), Some(<<"0", "x", "8">>), Some(<<"4", ".", "9">>)}

\* values of the theme query parameter: absent, empty, a theme, no key of
\* themes, and two inherited keys
ThemeValues ==
    {Null, Some(""), Some("matrix"), Some("bogus"), Some("constructor"),
     Some("__proto__")}

UsernameValues == {Null, Some(""), Some("octocat")}

\* process.env.GH_TOKEN: unset, empty, set
TokenValues == {Null, Some(""), Some("ghp_x")}

Request(method, token, query) == [method |-> method, token |-> token, query |-> query]

\* requests to the handler of part_000
Requests ==
    {Request(m, k, q) :
        m \in {"GET", "POST"}, k \in TokenValues,
        q \in {Null} \cup
              {Some([username |-> u, theme |-> t, chaos |-> c]) :
                  u \in UsernameValues, t \in ThemeValues, c \in ChaosValues}}

\* requests to the handler of src/api/index.js, which reads username only
ApiRequests ==
    {Request(m, k, q) :
        m \in {"GET", "POST"}, k \in TokenValues,
        q \in {Null} \cup
              {Some([username |-> u, theme |-> Null, chaos |-> Null]) :
                  u \in UsernameValues}}

\* the profiles a fetch returns: empty, complete, with a week that has no
\* contributionDays, with a repository that is null
FetchedUsers ==
    LET octocat == [EmptyUser EXCEPT !.login = Some("octocat"),
                                     !.createdAt = Some(16436)]
        alpha == Repo(Some("alpha"), Some(9), Some(1), Language(Some("A"), Some("#111")))
    IN  {EmptyUser,
         [octocat EXCEPT
             !.contributionsCollection = Contributions(Some(15), Some(51), ExampleCalendar),
             !.repositories = Repositories(<<alpha>>)],
         [octocat EXCEPT
             !.contributionsCollection =
                 Contributions(Some(1), Some(1),
                               Some([weeks |-> Some(<<[contributionDays |-> Null]>>)]))],
         [octocat EXCEPT !.repositories = Repositories(<<Null, alpha>>)]}

FetchOutcome(kind, status, text, body) ==
    [kind |-> kind, status |-> status, text |-> text, body |-> body]

\* what fetch and response.json() can come to: fetch rejected, a status
\* that is not ok with the response text, a body that is no JSON, and a
\* parsed body (null, or with errors and data present or not)
FetchOutcomes ==
    {FetchOutcome("rejected", 0, t, Null) : t \in ErrorTexts}
    \cup {FetchOutcome("text", 401, t, Null) : t \in ErrorTexts}
    \cup {FetchOutcome("invalid", 200, TextOfLength(2), Null)}
    \cup {FetchOutcome("json", 200, <<>>, b) :
            b \in {Null} \cup
                  {Some([errors |-> e, data |-> d]) :
                      e \in {Null, Some(<<>>),
                             Some(<<[message |-> TextOfLength(2)]>>),
                             Some(<<[message |-> TextOfLength(SubstringLimit - 1)],
                                    [message |-> TextOfLength(2)]>>)},
                      d \in {Null, Some([user |-> Null])}
                            \cup {Some([user |-> Some(u)]) : u \in FetchedUsers}}}

InitHandler ==
    /\ Fresh
    /\ now = 20000
    /\ \/ fn = "handler" /\ arg \in Requests
       \/ fn = "api/handler" /\ arg \in ApiRequests

\* the handler of part_000 runs to its await or to its end
HandlerEntry ==
    /\ pc = "call"
    /\ fn = "handler"
    /\ LET o == handler(arg, res)
       IN  /\ res' = o.res
           /\ ret' = o.ret
           /\ calls' = o.calls
           /\ pc' = IF o.ret = Null THEN "await" ELSE "done"
    /\ UNCHANGED <<fn, arg, now, response, random>>

\* the fetch settles and the handler of part_000 runs to its end
HandlerResume ==
    /\ pc = "await"
    /\ fn = "handler"
    /\ \E outcome \in FetchOutcomes :
           LET o == handlerAfterFetch(arg, res, outcome, now, calls)
           IN  /\ response' = Some(outcome)
               /\ res' = o.res
               /\ ret' = o.ret
               /\ calls' = o.calls
    /\ pc' = "done"
    /\ UNCHANGED <<fn, arg, now, random>>

ApiHandlerEntry ==
    /\ pc = "call"
    /\ fn = "api/handler"
    /\ LET o == ApiHandler(arg, res)
       IN  /\ res' = o.res
           /\ ret' = o.ret
           /\ calls' = o.calls
           /\ pc' = IF o.ret = Null THEN "await" ELSE "done"
    /\ UNCHANGED <<fn, arg, now, response, random>>

ApiHandlerResume ==
    /\ pc = "await"
    /\ fn = "api/handler"
    /\ \E outcome \in FetchOutcomes :
           LET o == ApiHandlerAfterFetch(arg, res, outcome, now, calls)
           IN  /\ response' = Some(outcome)
               /\ res' = o.res
               /\ ret' = o.ret
               /\ calls' = o.calls
    /\ pc' = "done"
    /\ UNCHANGED <<fn, arg, now, random>>

NextHandler == HandlerEntry \/ HandlerResume \/ ApiHandlerEntry \/ ApiHandlerResume

\* one request to one of the two handlers
SpecHandler == InitHandler /\ [][NextHandler]_vars

------------------------------------------------------------------------------
(* seededRandom and the jitter of generateSVG *)

LowerChars ==
    <<"a", "b", "c", "d", "e", "f", "g", "h", "i", "j", "k", "l", "m", "n", "o",
      "p", "q", "r", "s", "t", "u", "v", "w", "x", "y", "z">>

\* the position of the character c in the sequence chars
IndexIn(chars, c) == CHOOSE k \in 1..Len(chars) : chars[k] = c

\* seed.charCodeAt(i) (line 74) for the characters of a login written in
\* lower case and of a chaos level: the hyphen is 45, "0" is 48, "a" is 97
CharCodeAt(seed, i) ==
    IF seed[i] = "-" THEN 45
    ELSE IF \E k \in 1..10 : DigitChars[k] = seed[i]
         THEN 47 + IndexIn(DigitChars, seed[i])
         ELSE 96 + IndexIn(LowerChars, seed[i])

\* lines 75-76: ((hash << 5) - hash) + char, then hash & hash: the sum
\* 31 * hash + char as a signed 32-bit integer, computed on 16-bit halves
HashChar(hash, char) ==
    LET lo == hash % 65536
        hi == ((hash - lo) \div 65536) % 65536
        lo2 == 31 * lo + char
        hi2 == (31 * hi + (lo2 \div 65536)) % 65536
    IN  (IF hi2 >= 32768 THEN hi2 - 65536 ELSE hi2) * 65536 + (lo2 % 65536)

RECURSIVE HashOf(_, _)
\* lines 72-77: the loop over the first n characters of the seed
HashOf(seed, n) ==
    IF n = 0 THEN 0 ELSE HashChar(HashOf(seed, n - 1), CharCodeAt(seed, n))

\* lines 71-78: the hash a new generator starts from
seededRandom(seed) == HashOf(seed, Len(seed))

\* numbers beyond 32 bits are sequences of 14-bit limbs, lowest first
Limb == 16384

RECURSIVE Carry(_, _)
\* the limbs of the number whose limbs, not yet reduced, are raw
Carry(raw, carry) ==
    IF raw = <<>> THEN (IF carry = 0 THEN <<>> ELSE <<carry>>)
    ELSE <<(Head(raw) + carry) % Limb>>
         \o Carry(Tail(raw), (Head(raw) + carry) \div Limb)

\* the five limbs of a * b for a, b < 2^31 given by three limbs each
Times(a, b) ==
    Carry([k \in 1..5 |->
              LET pairs == {i \in 1..3 : k + 1 - i \in 1..3}
                  Sum[S \in SUBSET pairs] ==
                      IF S = {} THEN 0
                      ELSE LET i == CHOOSE j \in S : TRUE
                           IN  a[i] * b[k + 1 - i] + Sum[S \ {i}]
              IN  Sum[pairs]], 0)

\* the three limbs of n for 0 <= n < 2^31
Limbs(n) == <<n % Limb, (n \div Limb) % Limb, n \div (Limb * Limb)>>

RECURSIVE Pow2(_)
Pow2(k) == IF k = 0 THEN 1 ELSE 2 * Pow2(k - 1)

\* the number of bits of the number with these limbs
BitLength(limbs) ==
    LET top == {i \in 1..Len(limbs) : limbs[i] # 0}
    IN  IF top = {} THEN 0
        ELSE LET i == CHOOSE j \in top : \A m \in top : m <= j
             IN  14 * (i - 1) + (CHOOSE b \in 1..14 :
                                    Pow2(b - 1) <= limbs[i] /\ limbs[i] < Pow2(b))

\* the nearest double of the integer with these limbs: 53 significant bits
\* are kept and a tie goes to the even one
ToDouble(limbs) ==
    LET k == BitLength(limbs) - 53
    IN  IF k <= 0 THEN limbs
        ELSE LET low == limbs[1] % Pow2(k)
                 kept == limbs[1] - low
                 odd == (limbs[1] \div Pow2(k)) % 2 = 1
                 up == low > Pow2(k - 1) \/ (low = Pow2(k - 1) /\ odd)
             IN  Carry(<<kept + (IF up THEN Pow2(k) ELSE 0)>> \o Tail(limbs), 0)

RECURSIVE Borrow(_, _)
\* the limbs of the number with these limbs less borrow (not more than it)
Borrow(limbs, borrow) ==
    IF limbs = <<>> THEN <<>>
    ELSE IF Head(limbs) >= borrow THEN <<Head(limbs) - borrow>> \o Tail(limbs)
    ELSE <<Head(limbs) + Limb - borrow>> \o Borrow(Tail(limbs), 1)

\* the low 31 bits of the number with these limbs
Low31(limbs) ==
    LET l == limbs \o <<0, 0, 0>>
    IN  l[1] + Limb * l[2] + Limb * Limb * (l[3] % 8)

\* line 80: (hash * 1103515245 + 12345) & 0x7fffffff, the product and the
\* sum being rounded to doubles
NextHash(hash) ==
    LET magnitude == IF hash = 0 - 2147483647 - 1 THEN <<0, 0, 8>>
                     ELSE Limbs(IF hash < 0 THEN 0 - hash ELSE hash)
        product == ToDouble(Times(magnitude, Limbs(1103515245)))
        small == BitLength(product) <= 14 /\ Low31(product) < 12345
    IN  IF hash >= 0 THEN Low31(ToDouble(Carry(<<product[1] + 12345>> \o Tail(product), 0)))
        ELSE IF small THEN 12345 - Low31(product)
        ELSE LET low == Low31(ToDouble(Borrow(product, 12345)))
             IN  IF low = 0 THEN 0 ELSE (2147483647 - low) + 1

\* line 81: (hash % 1000) / 1000, in thousandths
RandomValue(hash) == hash % 1000

\* the floating cards of the image, each drawn with two offsets and one
\* rotation (lines 671-692)
CardCount == 8

\* line 465: metrics.username + chaosLevel; an undefined username makes the
\* sum NaN, which has no length, so that no character is hashed
Seed(username, chaosLevel) ==
    IF username = Null THEN <<>>
    ELSE username[1] \o (IF chaosLevel = 10 THEN <<"1", "0">>
                         ELSE <<DigitChars[chaosLevel + 1]>>)

NewGeneratorShared(generators, seed) ==
    [hash |-> IF generators = <<>> THEN seededRandom(seed)
              ELSE generators[Len(generators)].hash,
     drawn |-> <<>>]

\* line 465: every call of generateSVG creates its generator, whose hash is
\* a variable of that call of seededRandom (line 72)
NewGenerator(generators, seed) == [hash |-> seededRandom(seed), drawn |-> <<>>]

\* lines 468-469, 492: the offsets and the rotation added to each card,
\* (random() - 0.5) * chaosLevel * 3 and * 4, in thousandths
Jitter(drawn, chaosLevel) ==
    [c \in 1..CardCount |->
        [x |-> (drawn[3 * c - 2] - 500) * chaosLevel * 3,
         y |-> (drawn[3 * c - 1] - 500) * chaosLevel * 3,
         rotation |-> (drawn[3 * c] - 500) * chaosLevel * 4]]

\* logins in lower case
Logins ==
    {<<>>, <<"a">>, <<"o", "c", "t", "o", "c", "a", "t">>,
     <<"z", "z", "z", "z", "z", "z", "z", "z", "z">>, <<"a", "-", "b">>}

InitJitter ==
    /\ Fresh
    /\ fn = "generateSVG"
    /\ now = 0
    /\ arg \in [username : {Null} \cup {Some(l) : l \in Logins}, chaosLevel : 0..10]

\* generateSVG creates its generator (line 465)
JitterSeed ==
    /\ pc = "call"
    /\ fn = "generateSVG"
    /\ Len(random) < MaxCalls
    /\ random' = Append(random, NewGenerator(random, Seed(arg.username, arg.chaosLevel)))
    /\ pc' = "draw"
    /\ UNCHANGED <<fn, arg, now, ret, res, calls, response>>

\* one call of random() by the template (lines 79-82, 492)
JitterDraw ==
    /\ pc = "draw"
    /\ Len(random[Len(random)].drawn) < 3 * CardCount
    /\ random' = [random EXCEPT ![Len(random)] =
                     [hash |-> NextHash(@.hash),
                      drawn |-> Append(@.drawn, RandomValue(NextHash(@.hash)))]]
    /\ UNCHANGED <<fn, arg, now, pc, ret, res, calls, response>>

\* generateSVG returns the image with the jitter drawn; the next call of
\* generateSVG may follow
JitterReturn ==
    /\ pc = "draw"
    /\ Len(random[Len(random)].drawn) = 3 * CardCount
    /\ ret' = Returned(Jitter(random[Len(random)].drawn, arg.chaosLevel))
    /\ pc' = IF Len(random) < MaxCalls THEN "call" ELSE "done"
    /\ UNCHANGED <<fn, arg, now, res, calls, response, random>>

NextJitter == JitterSeed \/ JitterDraw \/ JitterReturn

\* calls of generateSVG, one after the other, with the same username and
\* chaos level
SpecJitter == InitJitter /\ [][NextJitter]_vars

------------------------------------------------------------------------------
(* The two impact score formulas *)

ScoreCounters ==
    [reviews : 0..MaxCounter, discussions : 0..MaxCounter, commits : 0..MaxCommits,
     stars : 0..MaxCounter, prs : 0..MaxCounter, closedIssues : 0..MaxCounter]

\* the counters the formula of src/api/index.js reads
ApiScoreCounters == {c \in ScoreCounters : c.prs = 0 /\ c.closedIssues = 0}

InitScore ==
    /\ Fresh
    /\ now = 0
    /\ \/ fn = "impactScore" /\ arg \in ScoreCounters
       \/ fn = "api/impactScore" /\ arg \in ApiScoreCounters

\* lines 228-235 on the counters
ScoreStep ==
    /\ pc = "call"
    /\ fn = "impactScore"
    /\ ret' = Returned(ImpactScore(arg.reviews, arg.discussions, arg.commits,
                                   arg.stars, arg.prs, arg.closedIssues))
    /\ pc' = "done"
    /\ UNCHANGED <<fn, arg, now, res, calls, response, random>>

\* src/api/index.js lines 91-93 on the counters
ApiScoreStep ==
    /\ pc = "call"
    /\ fn = "api/impactScore"
    /\ ret' = Returned(ApiImpactScore(arg.reviews, arg.discussions, arg.commits,
                                      arg.stars))
    /\ pc' = "done"
    /\ UNCHANGED <<fn, arg, now, res, calls, response, random>>

NextScore == ScoreStep \/ ApiScoreStep

\* the impact score formulas on counters
SpecScore == InitScore /\ [][NextScore]_vars

\* repositories that differ in language and in its color: absent, empty,
\* and two colors
ColorRepos ==
    {Repo(Some("r"), Some(1), Null, Language(Some(l), c)) :
        l \in {"A", "B"}, c \in {Null, Some(""), Some("#111"), Some("#222")}}

InitColors ==
    /\ Fresh
    /\ fn = "mapMetrics"
    /\ now = 20000
    /\ arg \in {Some([EmptyUser EXCEPT !.login = Some("octocat"),
                                       !.createdAt = Some(16436),
                                       !.repositories = Repositories(nodes)]) :
                   nodes \in SeqsUpTo(ColorRepos, MaxColorRepos)}

\* calls of mapMetrics on profiles that differ in the colors of the languages
SpecColors == InitColors /\ [][MapMetrics]_vars

-----------------------------------------------------------------------------
(* Vocabulary of the properties *)

Done(f) == pc = "done" /\ fn = f

\* the call has returned (not thrown)
ReturnedFrom(f) == Done(f) /\ ~ret[1].threw

Value == ret[1].value

\* a JavaScript number that is a finite integer >= 0
FiniteNat(x) == ~x.nan /\ x.n >= 0

\* the length of the longest run of adjacent entries with count > 0
MaxRun(days) ==
    LET Runs == {r \in (1..Len(days)) \X (1..Len(days)) :
                    /\ r[1] <= r[2]
                    /\ \A j \in r[1]..r[2] : days[j].count > 0}
    IN  IF Runs = {} THEN 0
        ELSE CHOOSE n \in 1..Len(days) :
                 /\ \E r \in Runs : r[2] - r[1] + 1 = n
                 /\ \A r \in Runs : r[2] - r[1] + 1 <= n

\* the number of entries with count > 0 immediately before position i
PositiveBefore(days, i) ==
    Cardinality({k \in 1..(i - 1) : \A j \in (i - k)..(i - 1) : days[j].count > 0})

\* the positions of the entries dated d
Dated(days, d) == {i \in 1..Len(days) : days[i].date = d}

\* the calendar handed to calculateStreaks has its weeks
StreaksOn == ReturnedFrom("calculateStreaks") /\ ~NoWeeks(arg)

\* the persona cascade as a table, in priority order
PersonaCascade ==
    <<[counter |-> "reviews", above |-> 100, label |-> "Code Guardian"],
      [counter |-> "stars", above |-> 500, label |-> "Star Collector"],
      [counter |-> "prs", above |-> 200, label |-> "PR Machine"],
      [counter |-> "commits", above |-> 2000, label |-> "Commit Warrior"],
      [counter |-> "issues", above |-> 100, label |-> "Issue Hunter"],
      [counter |-> "discussions", above |-> 50, label |-> "Community Voice"],
      [counter |-> "reviews", above |-> 50, label |-> "Review Master"],
      [counter |-> "stars", above |-> 100, label |-> "Rising Star"],
      [counter |-> "prs", above |-> 50, label |-> "Merge Master"]>>

\* the label of the first row of the cascade the counters satisfy
FirstSatisfied(counters) ==
    LET Met == {i \in 1..Len(PersonaCascade) :
                   counters[PersonaCascade[i].counter] > PersonaCascade[i].above}
    IN  IF Met = {} THEN "Code Explorer"
        ELSE PersonaCascade[CHOOSE i \in Met : \A j \in Met : i <= j].label

RankThresholds == <<50, 100, 250, 500, 1000, 2000>>

RankTiers ==
    <<[level |-> "D", title |-> "ROOKIE"], [level |-> "C", title |-> "CODER"],
      [level |-> "B", title |-> "BUILDER"], [level |-> "A", title |-> "EXPERT"],
      [level |-> "A+", title |-> "SENIOR"], [level |-> "S", title |-> "MASTER"],
      [level |-> "S+", title |-> "LEGEND"]>>

\* the tier of a score: one step up for every threshold strictly below it
TierOf(score) ==
    RankTiers[1 + Cardinality({i \in 1..Len(RankThresholds) : score > RankThresholds[i]})]

-----------------------------------------------------------------------------
(* Properties *)

\* C1: whenever mapMetrics returns a record with closedIssues > 100 and
\* reviews <= 100, stars <= 500, prs <= 200, commits <= 2000, the persona of
\* the record is "Issue Hunter" (the closed-issue count is the cascade's
\* issues counter).
C1_IssueHunterPersona ==
    (/\ ReturnedFrom("mapMetrics")
     /\ Value.closedIssues > 100
     /\ Value.reviews <= 100
     /\ Value.stars <= 500
     /\ Value.prs <= 200
     /\ Value.commits <= 2000)
    => Value.persona = "Issue Hunter"

\* C2: for the empty profile mapMetrics returns a record in which every
\* numeric field is 0, topRepos and topLanguages are empty, mostActiveDay is
\* "Sunday", rank is D / ROOKIE and persona is "Code Explorer".
C2_EmptyProfileAllZero ==
    (Done("mapMetrics") /\ arg = Some(EmptyUser))
    => /\ ~ret[1].threw
       /\ \A k \in {"commits", "reviews", "discussions", "closedIssues", "prs",
                    "stars", "forks", "followers", "following", "gists",
                    "sponsorships", "orgs", "currentStreak", "longestStreak",
                    "impactScore"} : Value[k] = 0
       /\ Value.accountAge = Num(0)
       /\ Value.createdYear = Num(0)
       /\ Value.topRepos = <<>>
       /\ Value.topLanguages = <<>>
       /\ Value.mostActiveDay = "Sunday"
       /\ Value.rank = [level |-> "D", title |-> "ROOKIE"]
       /\ Value.persona = "Code Explorer"

\* C3: mapMetrics never throws, and the counts below a missing object are
\* 0 / empty / default: without a contributions collection commits, reviews
\* and both streaks are 0 and mostActiveDay is "Sunday"; without a
\* repository list stars and forks are 0 and topRepos, topLanguages are empty.
C3_NeverThrows ==
    Done("mapMetrics")
    => /\ ~ret[1].threw
       /\ Chain(arg, "contributionsCollection") = Null
          => /\ Value.commits = 0 /\ Value.reviews = 0
             /\ Value.currentStreak = 0 /\ Value.longestStreak = 0
             /\ Value.mostActiveDay = "Sunday"
       /\ Chain(Chain(arg, "repositories"), "nodes") = Null
          => /\ Value.stars = 0 /\ Value.forks = 0
             /\ Value.topRepos = <<>> /\ Value.topLanguages = <<>>

\* C4: every numeric field of the record mapMetrics returns is a finite
\* integer >= 0 and every field is present, for every createdAt (a missing
\* one and one later than the clock included) and for a missing login or avatar.
C4_FiniteNonNegativeAndPresent ==
    ReturnedFrom("mapMetrics")
    => /\ \A k \in {"commits", "reviews", "discussions", "closedIssues", "prs",
                    "stars", "forks", "followers", "following", "gists",
                    "sponsorships", "orgs", "currentStreak", "longestStreak",
                    "impactScore"} : Value[k] \in Nat
       /\ FiniteNat(Value.accountAge)
       /\ FiniteNat(Value.createdYear)
       /\ \A i \in 1..Len(Value.topLanguages) : Value.topLanguages[i].percent \in Nat
       /\ Value.username # Null
       /\ Value.name # Null
       /\ Value.avatar # Null

\* C5: for every calendar handed to calculateStreaks, repeated dates and
\* dates later than today included, longest >= current >= 0.
C5_LongestAtLeastCurrent ==
    ReturnedFrom("calculateStreaks")
    => Value.longest >= Value.current /\ Value.current >= 0

\* C6: in the backward scan a zero-count day dated today does not end the
\* streak and a zero-count day of any other date does. With one entry dated
\* today: if its count is 0, the k >= 1 entries right before it are positive,
\* end yesterday and follow a zero-count entry, then current = k; if its
\* count is 0 and the entry right before it is a zero-count one, then
\* current = 0; if its count is > 0, then current = 1 + the number of
\* positive entries right before it.
C6_TodayZeroDoesNotEndStreak ==
    StreaksOn
    => LET days == AllDays(arg)
           today == Dated(days, now)
       IN  Cardinality(today) = 1
           => LET i == CHOOSE t \in today : TRUE
                  k == PositiveBefore(days, i)
              IN  /\ (/\ days[i].count = 0
                      /\ k >= 1
                      /\ days[i - 1].date = now - 1
                      /\ i - k - 1 >= 1)
                     => Value.current = k
                  /\ (/\ days[i].count = 0
                      /\ i > 1
                      /\ k = 0)
                     => Value.current = 0
                  /\ days[i].count > 0 => Value.current = 1 + k

\* C6 witness: today's entry has count 0, one positive entry dated yesterday
\* stands before it after a zero-count entry, and current = 1.
C6_Witness ==
    /\ StreaksOn
    /\ LET days == AllDays(arg)
       IN  /\ Len(days) = 3
           /\ days[3].date = now /\ days[3].count = 0
           /\ days[2].date = now - 1 /\ days[2].count > 0
           /\ days[1].date = now - 2 /\ days[1].count = 0
    /\ Value.current = 1

\* C7 as stated: if the last entry of the date-sorted calendar is dated
\* neither today nor yesterday, current = 0 and longest is the longest run.
C7_LastDayNotRecent ==
    (/\ StreaksOn
     /\ AllDays(arg) # <<>>
     /\ AllDays(arg)[Len(AllDays(arg))].date \notin {now, now - 1})
    => Value.current = 0 /\ Value.longest = MaxRun(AllDays(arg))

\* C7 amended: if no entry of the calendar is dated today or yesterday,
\* current = 0 whatever the counts are, and longest is still the longest run.
C7_NoRecentDay ==
    (/\ StreaksOn
     /\ \A i \in 1..Len(AllDays(arg)) : AllDays(arg)[i].date \notin {now, now - 1})
    => Value.current = 0 /\ Value.longest = MaxRun(AllDays(arg))

\* C7 witness: counts 1,1,0,1,1,1,0 on seven days ending two days ago give
\* longest 3 and current 0.
C7_Witness ==
    /\ StreaksOn
    /\ arg = ExampleCalendar
    /\ now = 8
    /\ Value = [current |-> 0, longest |-> 3]

\* C8: longest is the length of the longest run of adjacent entries with
\* count > 0 in the date-sorted list of all day entries; without a calendar
\* or without its weeks the result is {current: 0, longest: 0}; without a
\* positive day longest = 0.
C8_LongestIsMaxRun ==
    ReturnedFrom("calculateStreaks")
    => IF NoWeeks(arg) THEN Value = [current |-> 0, longest |-> 0]
       ELSE /\ Value.longest = MaxRun(AllDays(arg))
            /\ (\A i \in 1..Len(AllDays(arg)) : AllDays(arg)[i].count = 0)
               => Value.longest = 0

\* C8 witness: a zero-count entry splits the positive entries into runs of
\* 2 and 1, and longest = 2.
C8_Witness ==
    /\ StreaksOn
    /\ LET days == AllDays(arg)
       IN  /\ Len(days) = 4
           /\ days[1].count > 0 /\ days[2].count > 0
           /\ days[3].count = 0 /\ days[4].count > 0
    /\ Value.longest = 2

\* C9: determineCodingPersona returns the label of the first condition of
\* the cascade its six counters satisfy, "Code Explorer" when none is;
\* reviews = 150 with stars = 1000 gives "Code Guardian".
C9_PersonaCascade ==
    ReturnedFrom("determineCodingPersona")
    => /\ Value = FirstSatisfied(arg)
       /\ (arg.reviews = 150 /\ arg.stars = 1000) => Value = "Code Guardian"

\* C9 witness: reviews = 150 and stars = 1000 were classified "Code Guardian".
C9_Witness ==
    /\ ReturnedFrom("determineCodingPersona")
    /\ arg.reviews = 150
    /\ arg.stars = 1000
    /\ Value = "Code Guardian"

\* C10: calculateRank gives every score the tier of the strictly-greater
\* threshold table, a score equal to a threshold gets the tier below it,
\* and the rank of the record mapMetrics returns is the tier of the
\* record's impactScore.
C10_RankThresholds ==
    /\ ReturnedFrom("calculateRank")
       => /\ Value = TierOf(arg)
          /\ \A i \in 1..Len(RankThresholds) :
                 arg = RankThresholds[i] => Value = RankTiers[i]
    /\ ReturnedFrom("mapMetrics") => Value.rank = TierOf(Value.impactScore)

\* C10 witness: the score 1000, equal to a threshold, was ranked A+ / SENIOR.
C10_Witness ==
    /\ ReturnedFrom("calculateRank")
    /\ arg = 1000
    /\ Value = [level |-> "A+", title |-> "SENIOR"]

\* the place of a level in the order D < C < B < A < A+ < S < S+
TierIndex(level) ==
    CHOOSE i \in 1..7 : <<"D", "C", "B", "A", "A+", "S", "S+">>[i] = level

\* C11: rank is monotone in the score: every score a <= b gets a tier that
\* is not higher than the tier calculateRank returned for b, in the order
\* D < C < B < A < A+ < S < S+.
C11_RankMonotone ==
    ReturnedFrom("calculateRank")
    => \A a \in (0 - MaxScore)..arg :
           TierIndex(calculateRank(a).level) <= TierIndex(Value.level)

\* C11 witness: 1001 was ranked S, strictly above the tier of 1000.
C11_Witness ==
    /\ ReturnedFrom("calculateRank")
    /\ arg = 1001
    /\ Value.level = "S"
    /\ TierIndex(calculateRank(1000).level) < TierIndex(Value.level)

RECURSIVE SumSeq(_)
SumSeq(numbers) ==
    IF numbers = <<>> THEN 0 ELSE Head(numbers) + SumSeq(Tail(numbers))

\* the total contributionCount of the days of a calendar on weekday w (0..6)
WeekdayTotal(contributionCalendar, w) ==
    LET days == WeekDays(contributionCalendar[1].weeks[1])
        OnDay(d) == d.weekday = w
        onDay == SelectSeq(days, OnDay)
    IN  SumSeq([i \in 1..Len(onDay) |-> onDay[i].contributionCount])

\* C12: calculateMostActiveDay returns the name of the weekday with the
\* largest total contributionCount, the earliest such weekday in
\* Sunday-first order on a tie; equal largest totals on Sunday and Wednesday
\* give "Sunday"; an absent calendar and all totals 0 give "Sunday".
C12_MostActiveDay ==
    ReturnedFrom("calculateMostActiveDay")
    => IF NoWeeks(arg) THEN Value = "Sunday"
       ELSE /\ \E k \in 0..6 :
                  /\ Value = weekdayNames[k + 1]
                  /\ \A j \in 0..6 : WeekdayTotal(arg, j) <= WeekdayTotal(arg, k)
                  /\ \A j \in 0..(k - 1) : WeekdayTotal(arg, j) < WeekdayTotal(arg, k)
            /\ (/\ WeekdayTotal(arg, 0) = WeekdayTotal(arg, 3)
                /\ \A j \in 0..6 : WeekdayTotal(arg, j) <= WeekdayTotal(arg, 0))
               => Value = "Sunday"
            /\ (\A j \in 0..6 : WeekdayTotal(arg, j) = 0) => Value = "Sunday"

\* C12 witness: Sunday and Wednesday tie on the largest total, 5, and the
\* result is "Sunday".
C12_Witness ==
    /\ ReturnedFrom("calculateMostActiveDay")
    /\ ~NoWeeks(arg)
    /\ WeekdayTotal(arg, 0) = 5
    /\ WeekdayTotal(arg, 3) = 5
    /\ Value = "Sunday"

\* the sum of stargazerCount over the repository list of a profile
StarsOf(user) ==
    LET nodes == IF user = Null \/ user[1].repositories = Null
                    \/ user[1].repositories[1].nodes = Null
                 THEN <<>> ELSE user[1].repositories[1].nodes[1]
    IN  SumSeq([i \in 1..Len(nodes) |->
                   IF nodes[i] = Null \/ nodes[i][1].stargazerCount = Null THEN 0
                   ELSE nodes[i][1].stargazerCount[1]])

\* C13: impactScore is the integer quotient
\* (30*reviews + 20*discussions + commits + 20*stars + 15*prs
\*  + 10*closedIssues) div 10 of the record's counters, stars being the sum
\* of stargazerCount over the repository list, and is a non-negative integer.
C13_ImpactScore ==
    ReturnedFrom("mapMetrics")
    => /\ Value.stars = StarsOf(arg)
       /\ Value.impactScore =
              (30 * Value.reviews + 20 * Value.discussions + Value.commits
                  + 20 * StarsOf(arg) + 15 * Value.prs + 10 * Value.closedIssues)
              \div 10
       /\ Value.impactScore \in Nat

\* C13 witness: 15 commits, 51 reviews, 51 discussion comments, 501 stars,
\* 201 merged pull requests and 101 closed issues score 1661.
C13_Witness ==
    /\ ReturnedFrom("mapMetrics")
    /\ Value.commits = 15 /\ Value.reviews = 51 /\ Value.discussions = 51
    /\ Value.stars = 501 /\ Value.prs = 201 /\ Value.closedIssues = 101
    /\ Value.impactScore = 1661

\* the repository list of the profile handed to mapMetrics
Nodes == arg[1].repositories[1].nodes[1]

\* the list has its entries: the profile carries a repository list
OnRepoList ==
    /\ ReturnedFrom("mapMetrics")
    /\ arg # Null /\ arg[1].repositories # Null
    /\ arg[1].repositories[1].nodes # Null

NamedRepo(r) == r # Null /\ r[1].name # Null /\ r[1].name[1] # ""

\* {name, stars} of a repository
RepoCard(r) ==
    [name |-> r[1].name[1],
     stars |-> IF r[1].stargazerCount = Null THEN 0 ELSE r[1].stargazerCount[1]]

\* C14 as stated: topRepos is the first 3 entries of the list, of which the
\* ones with a non-empty name are kept in order, each as {name, stars}.
C14_FirstThreeThenNamed ==
    OnRepoList
    => LET kept == SelectSeq(SubSeq(Nodes, 1, Min(3, Len(Nodes))), NamedRepo)
       IN  Value.topRepos = [i \in 1..Len(kept) |-> RepoCard(kept[i])]

\* C14 amended: topRepos is the entries of the list with a non-empty name,
\* in list order, of which the first 3 are taken, each as {name, stars};
\* it has at most 3 entries.
C14_NamedThenFirstThree ==
    OnRepoList
    => LET named == {p \in 1..Len(Nodes) : NamedRepo(Nodes[p])}
           Nth(i) == CHOOSE p \in named : Cardinality({q \in named : q < p}) = i - 1
       IN  /\ Len(Value.topRepos) = Min(3, Cardinality(named))
           /\ Len(Value.topRepos) <= 3
           /\ \A i \in 1..Len(Value.topRepos) :
                  Value.topRepos[i] = RepoCard(Nodes[Nth(i)])

\* C14 witness: the first of four entries has no name, and the entry at
\* position 4 is the third of topRepos.
C14_Witness ==
    /\ OnRepoList
    /\ Len(Nodes) = 4
    /\ ~NamedRepo(Nodes[1])
    /\ NamedRepo(Nodes[2]) /\ NamedRepo(Nodes[3]) /\ NamedRepo(Nodes[4])
    /\ Len(Value.topRepos) = 3
    /\ Value.topRepos[3] = RepoCard(Nodes[4])

\* C15: the percent values of the returned topLanguages sum to at most 100.
C15_PercentSumAtMost100 ==
    ReturnedFrom("mapMetrics")
    => SumSeq([i \in 1..Len(Value.topLanguages) |-> Value.topLanguages[i].percent])
           <= 100

\* the repository has a known primary language
KnownLanguage(r) ==
    /\ r # Null
    /\ r[1].primaryLanguage # Null
    /\ r[1].primaryLanguage[1].name # Null
    /\ r[1].primaryLanguage[1].name[1] # ""

\* the number of repositories of the list whose primary language is l
LanguageCount(l) ==
    Cardinality({p \in 1..Len(Nodes) :
                    KnownLanguage(Nodes[p]) /\ Nodes[p][1].primaryLanguage[1].name[1] = l})

\* the languages of the list
Languages ==
    {Nodes[p][1].primaryLanguage[1].name[1] :
        p \in {q \in 1..Len(Nodes) : KnownLanguage(Nodes[q])}}

Finished == pc = "done" /\ fn \in {"handler", "api/handler"}

\* the handler sent one response with this status
Answered(code) == Finished /\ res.sent = 1 /\ res.status = code

\* the fetch came to data without a user
NoUserFetched ==
    /\ response[1].kind = "json"
    /\ response[1].body # Null
    /\ response[1].body[1].errors = Null
    /\ Chain(response[1].body[1].data, "user") = Null

\* the fetch came to an error: fetch rejected, the status was not ok, the
\* body was no JSON object, or it carried an errors list
AcquisitionThrew ==
    \/ response[1].kind # "json"
    \/ response[1].body = Null
    \/ response[1].body[1].errors # Null

Called(f) == \E i \in 1..Len(calls) : calls[i] = f

\* C18: when the fetch came to data without a user the handler answers 404
\* and neither mapMetrics nor generateSVG is called; when acquisition threw
\* it answers 500; it answers 200 only when a user was fetched.
C18_NotFoundApartFromFailure ==
    (Finished /\ response # Null)
    => /\ NoUserFetched
          => Answered(404) /\ ~Called("mapMetrics") /\ ~Called("generateSVG")
       /\ AcquisitionThrew => Answered(500)
       /\ res.status = 200 => ~AcquisitionThrew /\ ~NoUserFetched

\* C19: without GH_TOKEN the handler of part_000 does not throw and does not
\* fetch: it answers 500 with an SVG error image, whatever username, theme
\* and chaos are; with GH_TOKEN and without username it answers 400 with an
\* SVG error image.
C19_MissingCredentialIsErrorImage ==
    (Finished /\ fn = "handler" /\ arg.method = "GET")
    => /\ ~Truthy(arg.token)
          => /\ ~ret[1].threw
             /\ ~Called("fetchGitHubData")
             /\ Answered(500)
             /\ res.contentType = "image/svg+xml"
             /\ res.body[1].kind = "errorSvg"
       /\ (Truthy(arg.token) /\ ~Truthy(Query(arg, "username")))
          => /\ Answered(400)
             /\ res.contentType = "image/svg+xml"
             /\ res.body[1].kind = "errorSvg"

\* C20: a request whose method is not GET is answered 405 and the handler
\* ends at once: it fetches nothing, computes no metrics and renders
\* nothing, whatever the token and the query are.
C20_OtherMethodsRejectedFirst ==
    (fn \in {"handler", "api/handler"} /\ arg.method # "GET" /\ pc # "call")
    => /\ pc = "done"
       /\ Answered(405)
       /\ calls = <<>>
       /\ response = Null
       /\ res.body[1].kind = "json"

\* C20 witness: a POST with token, username and theme was answered 405 by
\* the handler of part_000.
C20_Witness ==
    /\ Answered(405)
    /\ fn = "handler"
    /\ arg.method = "POST"
    /\ Truthy(arg.token)
    /\ Truthy(Query(arg, "username"))
    /\ Query(arg, "theme") = Some("constructor")

\* the text is an integer in decimal: an optional minus sign and digits
IntegerText(s) ==
    LET digits == IF s # <<>> /\ s[1] = "-" THEN Tail(s) ELSE s
    IN  /\ digits # <<>>
        /\ \A i \in 1..Len(digits) : \E d \in 1..10 : DigitChars[d] = digits[i]

RECURSIVE Decimal(_)
\* the number a sequence of decimal digits denotes
Decimal(digits) ==
    IF digits = <<>> THEN 0
    ELSE 10 * Decimal(SubSeq(digits, 1, Len(digits) - 1))
         + (CHOOSE d \in 0..9 : DigitChars[d + 1] = digits[Len(digits)])

\* the integer an integer text denotes
IntegerOf(s) == IF s[1] = "-" THEN 0 - Decimal(Tail(s)) ELSE Decimal(s)

\* the handler of part_000 answered 200 with the card
CardSent == Answered(200) /\ fn = "handler" /\ res.body[1].kind = "card"

\* C21: the chaos level passed to generateSVG is the integer of the chaos
\* parameter clamped into [0,10] (0..10 unchanged, below 0 gives 0, above 10
\* gives 10), 5 for an absent parameter and for one without any digit, and
\* always an integer in [0,10].
C21_ChaosClamped ==
    CardSent
    => LET chaos == Query(arg, "chaos")
           level == res.body[1].chaosLevel
       IN  /\ level \in 0..10
           /\ chaos = Null => level = 5
           /\ (chaos # Null /\ \A i \in 1..Len(chaos[1]) :
                                  \A d \in 1..10 : DigitChars[d] # chaos[1][i])
              => level = 5
           /\ (chaos # Null /\ IntegerText(chaos[1]))
              => level = Min(10, Max(0, IntegerOf(chaos[1])))

\* the eight themes that are defined
DefinedThemes ==
    {"default", "glass", "snow_globe", "lava_lamp", "matrix", "dracula", "nord",
     "cyberpunk"}

\* C22: every image the handler of part_000 answers a GET with, the card and
\* the error images alike, is drawn in one of the eight defined themes: the
\* theme of the parameter when that names a defined theme, the default theme
\* for every other value and for an absent parameter.
C22_ThemeIsDefinedOrDefault ==
    (Finished /\ fn = "handler" /\ arg.method = "GET")
    => LET requested == Query(arg, "theme")
       IN  /\ res.sent = 1
           /\ res.body[1].theme \in DefinedThemes
           /\ res.body[1].theme = IF requested # Null /\ requested[1] \in DefinedThemes
                                  THEN requested[1] ELSE "default"

\* C23: calls of generateSVG with the same username and chaos level draw
\* the same sequence of values from their generators, and return the same
\* offsets and rotations of the cards.
C23_JitterReproducible ==
    fn = "generateSVG"
    => /\ \A i, j \in 1..Len(random) :
              \A k \in 1..Min(Len(random[i].drawn), Len(random[j].drawn)) :
                  random[i].drawn[k] = random[j].drawn[k]
       /\ (ret # Null /\ pc \in {"call", "done"})
          => Value = Jitter(random[1].drawn, arg.chaosLevel)

\* C23 witness: generateSVG was called twice for octocat at chaos level 5
\* and drew values that differ from one draw to the next.
C23_Witness ==
    /\ Done("generateSVG")
    /\ Len(random) >= 2
    /\ arg.username = Some(<<"o", "c", "t", "o", "c", "a", "t">>)
    /\ arg.chaosLevel = 5
    /\ random[2].drawn[1] # random[2].drawn[2]
    /\ Value[1].x # Value[2].x

\* the fetch failed in transport, by its HTTP status, or by an errors list
AcquisitionFailed ==
    \/ response[1].kind \in {"rejected", "text"}
    \/ /\ response[1].kind = "json"
       /\ response[1].body # Null
       /\ response[1].body[1].errors # Null

\* the message of the error of a failed acquisition
FailureMessage ==
    IF response[1].kind \in {"rejected", "text"} THEN response[1].text
    ELSE Join(response[1].body[1].errors[1])

\* C24: when acquisition fails (transport, HTTP status, errors list) the
\* handler of part_000 does not throw: it answers 500 with an SVG error
\* image whose text carries the first 50 characters of the error message,
\* or all of a shorter message.
C24_AcquisitionFailureIsErrorImage ==
    (Finished /\ fn = "handler" /\ response # Null /\ AcquisitionFailed)
    => /\ ~ret[1].threw
       /\ Answered(500)
       /\ res.contentType = "image/svg+xml"
       /\ res.body[1].kind = "errorSvg"
       /\ LET text == res.body[1].message.text
          IN  /\ Len(text) = Min(50, Len(FailureMessage))
              /\ \A i \in 1..Len(text) : text[i] = FailureMessage[i]

\* the impact score the formula that was called gives to the counters c
ScoreOf(c) ==
    IF fn = "impactScore"
    THEN ImpactScore(c.reviews, c.discussions, c.commits, c.stars, c.prs,
                     c.closedIssues)
    ELSE ApiImpactScore(c.reviews, c.discussions, c.commits, c.stars)

\* the counters that formula reads
CountersRead ==
    IF fn = "impactScore"
    THEN {"reviews", "discussions", "commits", "stars", "prs", "closedIssues"}
    ELSE {"reviews", "discussions", "commits", "stars"}

\* C25: in both impact score formulas one more review, and one more
\* discussion comment, raises the score by strictly more than one more
\* commit does, and the score does not decrease when a counter increases.
C25_ReviewsOutweighCommits ==
    (pc = "done" /\ fn \in {"impactScore", "api/impactScore"})
    => LET More(k) == [arg EXCEPT ![k] = @ + 1]
       IN  /\ ScoreOf(More("reviews")) - Value > ScoreOf(More("commits")) - Value
           /\ ScoreOf(More("discussions")) - Value > ScoreOf(More("commits")) - Value
           /\ \A k \in CountersRead : ScoreOf(More(k)) >= Value

\* C25 witness: the formula of src/api/index.js gave 2 to one review and
\* nine commits, where the next commit raises the score.
C25_Witness ==
    /\ pc = "done"
    /\ fn = "api/impactScore"
    /\ arg = [reviews |-> 1, discussions |-> 0, commits |-> 9, stars |-> 0,
              prs |-> 0, closedIssues |-> 0]
    /\ Value = 2

\* no two day entries of the calendar have the same date
DistinctDates ==
    \A i, j \in 1..Len(AllDays(arg)) :
        i # j => AllDays(arg)[i].date # AllDays(arg)[j].date

\* the calendar has an entry dated d with count > 0
PositiveOn(d) ==
    \E i \in 1..Len(AllDays(arg)) :
        AllDays(arg)[i].date = d /\ AllDays(arg)[i].count > 0

\* the largest number of consecutive calendar dates that all have count > 0
MaxDateRun ==
    LET dates == {AllDays(arg)[i].date : i \in 1..Len(AllDays(arg))}
        Runs == {r \in dates \X dates :
                    r[1] <= r[2] /\ \A d \in r[1]..r[2] : PositiveOn(d)}
    IN  IF Runs = {} THEN 0
        ELSE CHOOSE n \in 1..Len(AllDays(arg)) :
                 /\ \E r \in Runs : r[2] - r[1] + 1 = n
                 /\ \A r \in Runs : r[2] - r[1] + 1 <= n

\* C26: a streak is a run of consecutive calendar days: on a calendar whose
\* entries have distinct dates neither longest nor current counts more days
\* than the longest run of consecutive dates with count > 0, so two positive
\* days with a date missing between them are not in one streak.
C26_StreakOfConsecutiveDates ==
    (StreaksOn /\ DistinctDates)
    => Value.longest <= MaxDateRun /\ Value.current <= MaxDateRun

\* the day entries of the calendar in the order of the input
InputDays == FlattenWeeks(arg[1].weeks[1])

\* the same day entries arranged by ascending date (the dates being distinct)
DaysByDate ==
    [i \in 1..Len(InputDays) |->
        LET e == CHOOSE x \in {InputDays[k] : k \in 1..Len(InputDays)} :
                     Cardinality({k \in 1..Len(InputDays) :
                                     InputDays[k].date < x.date}) = i - 1
        IN  Day(e.date, e.count)]

\* C27: on a calendar whose day entries have distinct dates the result of
\* calculateStreaks is that of the same entries arranged by date, whatever
\* the order of the weeks and of the days within them is; so every
\* permutation of the entries gives the same {current, longest}.
C27_OrderOfEntriesIrrelevant ==
    (StreaksOn /\ DistinctDates)
    => Value = calculateStreaks(Calendar(DaysByDate), now)

\* C27 witness: three entries with distinct dates, given with the latest
\* first, all positive, were counted as one streak of 3.
C27_Witness ==
    /\ StreaksOn
    /\ DistinctDates
    /\ Len(InputDays) = 3
    /\ InputDays[1].date > InputDays[2].date
    /\ InputDays[1].date > InputDays[3].date
    /\ Value.longest = 3

\* C28: the color reported for a language is the color of the first
\* repository of the list that has this language, whatever colors later
\* repositories of that language carry; "#ccc" when that color is missing.
C28_FirstSeenColor ==
    OnRepoList
    => \A i \in 1..Len(Value.topLanguages) :
           LET name == Value.topLanguages[i].name
               with == {p \in 1..Len(Nodes) :
                           /\ KnownLanguage(Nodes[p])
                           /\ Nodes[p][1].primaryLanguage[1].name[1] = name}
               first == CHOOSE p \in with : \A q \in with : p <= q
               color == Nodes[first][1].primaryLanguage[1].color
           IN  Value.topLanguages[i].color =
                   IF color = Null \/ color[1] = "" THEN "#ccc" ELSE color[1]

\* C28 witness: two repositories of language A with different colors and one
\* of language B without a color: A has the color of the first, B is gray.
C28_Witness ==
    /\ OnRepoList
    /\ Len(Nodes) = 3
    /\ Nodes[1][1].primaryLanguage = Language(Some("A"), Some("#111"))
    /\ Nodes[2][1].primaryLanguage = Language(Some("A"), Some("#222"))
    /\ Nodes[3][1].primaryLanguage = Language(Some("B"), Null)
    /\ Value.topLanguages[1].color = "#111"
    /\ Value.topLanguages[2].color = "#ccc"

RECURSIVE Semicolons(_)
\* the messages of an errors list, "; " between one and the next
Semicolons(errors) ==
    IF Len(errors) = 0 THEN <<>>
    ELSE IF Len(errors) = 1 THEN errors[1].message
    ELSE Semicolons(SubSeq(errors, 1, Len(errors) - 1))
         \o <<";", " ">> \o errors[Len(errors)].message

\* the handler answered 500 and its image or text shows this error message:
\* the first 50 characters in part_000, all of it in src/api/index.js
Shows500(message) ==
    /\ Answered(500)
    /\ IF fn = "handler"
       THEN res.body[1].message.text = SubSeq(message, 1, Min(50, Len(message)))
       ELSE res.body[1].message.text.text = message

\* C29: fetchGitHubData fails on a status that is not ok with the response
\* text as message; otherwise on a present errors list with the messages
\* joined by "; "; otherwise it returns data. So an errors list goes before
\* not-found: with an errors list the handler answers 500 also when the
\* user is absent, and 404 only without one.
C29_ErrorsBeforeNotFound ==
    (Finished /\ response # Null)
    => LET r == response[1]
       IN  /\ r.kind = "text" => Shows500(r.text)
           /\ (r.kind = "json" /\ r.body # Null /\ r.body[1].errors # Null)
              => Shows500(Semicolons(r.body[1].errors[1]))
           /\ (r.kind = "json" /\ r.body # Null /\ r.body[1].errors = Null)
              => IF Chain(r.body[1].data, "user") = Null THEN Answered(404)
                 ELSE Called("mapMetrics")

\* C30: every invocation of the handler of part_000 ends with exactly one
\* response sent, with a status in {200, 400, 404, 405, 500}, after at most
\* one call of fetchGitHubData; the 200 response alone carries the public
\* 4-hour Cache-Control, every SVG error response carries "no-cache".
C30_ExactlyOneResponse ==
    (Finished /\ fn = "handler")
    => /\ res.sent = 1
       /\ res.status \in {200, 400, 404, 405, 500}
       /\ Cardinality({i \in 1..Len(calls) : calls[i] = "fetchGitHubData"}) <= 1
       /\ res.cacheControl = "public, max-age=14400, s-maxage=14400"
          <=> res.status = 200
       /\ res.body[1].kind = "errorSvg" => res.cacheControl = "no-cache"

====
